---- MODULE Spec2Model ----
(***************************************************************************)
(* A model of BLE_TEST_CLIENT.py, the NocturneCompanion BLE test client.   *)
(*                                                                         *)
(* Text is a sequence of Unicode code points and a byte buffer a sequence  *)
(* of numbers 0..255, so that decode('utf-8'), json.loads, json.dumps,     *)
(* encode('utf-8'), int() and hex() are computed character by character.   *)
(* Timestamps and the decorative part of the console output are left out;  *)
(* a console line is a record naming the print statement and carrying the  *)
(* values it prints.                                                       *)
(***************************************************************************)
EXTENDS Integers, Sequences, FiniteSets, TLC

\* --------------------------------------------------------------------------
\* Characters and string literals
\* --------------------------------------------------------------------------

\* The printable ASCII characters 32..95 and 97..126, in code point order.
AsciiLow == " !\"#$%&'()*+,-./0123456789:;<=>?@ABCDEFGHIJKLMNOPQRSTUVWXYZ[\\]^_"

AsciiHigh == "abcdefghijklmnopqrstuvwxyz{|}~"

\* ord(c) of a one-character printable ASCII string.
Ord(c) ==
  IF \E n \in 1..Len(AsciiLow) : SubSeq(AsciiLow, n, n) = c
  THEN 31 + (CHOOSE n \in 1..Len(AsciiLow) : SubSeq(AsciiLow, n, n) = c)
  ELSE 96 + (CHOOSE n \in 1..Len(AsciiHigh) : SubSeq(AsciiHigh, n, n) = c)

\* A Python str literal as its sequence of code points.
S(str) == [i \in 1..Len(str) |-> Ord(SubSeq(str, i, i))]

\* --------------------------------------------------------------------------
\* bytes.decode('utf-8') / str.encode('utf-8') / bytes.hex()
\* --------------------------------------------------------------------------

\* The first index j >= i of s with s[j] outside `class`, Len(s) + 1 if there
\* is none: the end of the run of `class` that starts at s[i].
RunEnd(s, i, class) ==
  CHOOSE j \in i..(Len(s) + 1) :
    /\ j = Len(s) + 1 \/ s[j] \notin class
    /\ \A k \in i..(j - 1) : s[k] \in class

IsAscii(c) == c < 128

\* Length of the well-formed UTF-8 sequence starting at b[i], 0 if there is none
\* (strict decoding: no overlong forms, no surrogates, nothing above U+10FFFF).
Utf8Len(b, i) ==
  LET n  == Len(b)
      b0 == b[i]
      c(k) == i + k <= n /\ b[i + k] >= 128 /\ b[i + k] <= 191
  IN  IF b0 < 128 THEN 1
      ELSE IF b0 >= 194 /\ b0 <= 223 THEN (IF c(1) THEN 2 ELSE 0)
      ELSE IF b0 >= 224 /\ b0 <= 239
           THEN IF c(1) /\ c(2)
                   /\ (b0 = 224 => b[i + 1] >= 160)
                   /\ (b0 = 237 => b[i + 1] <= 159)
                THEN 3 ELSE 0
      ELSE IF b0 >= 240 /\ b0 <= 244
           THEN IF c(1) /\ c(2) /\ c(3)
                   /\ (b0 = 240 => b[i + 1] >= 144)
                   /\ (b0 = 244 => b[i + 1] <= 143)
                THEN 4 ELSE 0
      ELSE 0

\* The code point of the well-formed sequence of length k starting at b[i].
Utf8Point(b, i, k) ==
  IF k = 1 THEN b[i]
  ELSE IF k = 2 THEN (b[i] - 192) * 64 + (b[i + 1] - 128)
  ELSE IF k = 3 THEN (b[i] - 224) * 4096 + (b[i + 1] - 128) * 64 + (b[i + 2] - 128)
  ELSE (b[i] - 240) * 262144 + (b[i + 1] - 128) * 4096
       + (b[i + 2] - 128) * 64 + (b[i + 3] - 128)

RECURSIVE Utf8From(_, _, _)
\* The decoder from b[i] on: a run of ASCII bytes is taken as it is, then one
\* multi-byte sequence is decoded.
Utf8From(b, i, acc) ==
  IF i > Len(b) THEN [ok |-> TRUE, text |-> acc]
  ELSE IF IsAscii(b[i])
       THEN Utf8From(b, RunEnd(b, i, {c \in Nat : IsAscii(c)}),
                     acc \o SubSeq(b, i, RunEnd(b, i, {c \in Nat : IsAscii(c)}) - 1))
  ELSE IF Utf8Len(b, i) = 0 THEN [ok |-> FALSE, text |-> <<>>]
  ELSE Utf8From(b, i + Utf8Len(b, i), Append(acc, Utf8Point(b, i, Utf8Len(b, i))))

\* data.decode('utf-8'): ok = FALSE stands for UnicodeDecodeError.
decode_utf8(b) == Utf8From(b, 1, <<>>)

EncodePoint(c) ==
  IF c < 128 THEN <<c>>
  ELSE IF c < 2048 THEN <<192 + (c \div 64), 128 + (c % 64)>>
  ELSE IF c < 65536
       THEN <<224 + (c \div 4096), 128 + ((c \div 64) % 64), 128 + (c % 64)>>
  ELSE <<240 + (c \div 262144), 128 + ((c \div 4096) % 64),
         128 + ((c \div 64) % 64), 128 + (c % 64)>>

RECURSIVE Utf8To(_, _)
\* The encoder from text[i] on: a run of ASCII characters is taken as it is,
\* then one character is encoded.
Utf8To(text, i) ==
  IF i > Len(text) THEN <<>>
  ELSE IF IsAscii(text[i])
       THEN SubSeq(text, i, RunEnd(text, i, {c \in Nat : IsAscii(c)}) - 1)
            \o Utf8To(text, RunEnd(text, i, {c \in Nat : IsAscii(c)}))
  ELSE EncodePoint(text[i]) \o Utf8To(text, i + 1)

\* json_str.encode('utf-8')
encode_utf8(text) == Utf8To(text, 1)

HexDigits == S("0123456789abcdef")

\* data.hex(): two lower-case hexadecimal digits per byte.
hex(b) ==
  [i \in 1..(2 * Len(b)) |->
     IF i % 2 = 1 THEN HexDigits[(b[(i + 1) \div 2] \div 16) + 1]
     ELSE HexDigits[(b[i \div 2] % 16) + 1]]

\* --------------------------------------------------------------------------
\* JSON documents (the values json.loads returns)
\* --------------------------------------------------------------------------

\* A document is a record [t, v]: t names the Python type, v holds the value.
\* A dict is the sequence of its items [k, v] in insertion order.
JNull == [t |-> "null", v |-> 0]

JBool(b) == [t |-> "bool", v |-> b]

JInt(n) == [t |-> "int", v |-> n]

\* A float is held as its repr: "1.5", "1e+16", "-0.0", "nan", "inf", "-inf".
JFloat(r) == [t |-> "float", v |-> r]

JStr(s) == [t |-> "str", v |-> s]

JArr(items) == [t |-> "arr", v |-> items]

JObj(items) == [t |-> "obj", v |-> items]

HasKey(items, k) == \E i \in 1..Len(items) : items[i].k = k

\* d[k] = v on a dict: a key already present keeps its place and takes the new value.
DictSet(items, k, v) ==
  IF HasKey(items, k)
  THEN [i \in 1..Len(items) |-> IF items[i].k = k THEN [k |-> k, v |-> v] ELSE items[i]]
  ELSE Append(items, [k |-> k, v |-> v])

\* dict.get(key, default)
DictGet(items, k, default) ==
  IF HasKey(items, k)
  THEN items[CHOOSE i \in 1..Len(items) : items[i].k = k].v
  ELSE default

\* bool(x) of a document, as `if message.get("data"):` tests it.
Truthy(x) ==
  IF x.t = "null" THEN FALSE
  ELSE IF x.t = "bool" THEN x.v
  ELSE IF x.t = "int" THEN x.v /= 0
  ELSE IF x.t = "float" THEN x.v \notin {<<48, 46, 48>>, <<45, 48, 46, 48>>}
  ELSE x.v /= <<>>

\* --------------------------------------------------------------------------
\* json.loads
\* --------------------------------------------------------------------------

IsDigit(c) == c >= 48 /\ c <= 57

\* WHITESPACE.match(s, i).end(): the whitespace json skips is space, \t, \n, \r.
SkipWs(s, i) == IF i > Len(s) THEN i ELSE RunEnd(s, i, {32, 9, 10, 13})

ParseFail == [ok |-> FALSE, val |-> JNull, next |-> 0]

ParseOk(v, n) == [ok |-> TRUE, val |-> v, next |-> n]

StartsAt(s, i, lit) == i + Len(lit) - 1 <= Len(s) /\ SubSeq(s, i, i + Len(lit) - 1) = lit

\* The index after the run of digits starting at i.
DigitsEnd(s, i) == IF i > Len(s) THEN i ELSE RunEnd(s, i, {c \in Nat : IsDigit(c)})

RECURSIVE DigitsValue(_, _, _, _)
DigitsValue(s, i, j, acc) ==
  IF i >= j THEN acc ELSE DigitsValue(s, i + 1, j, acc * 10 + (s[i] - 48))

RECURSIVE NatToStr(_)
\* str(n) of an int n >= 0
NatToStr(n) == IF n < 10 THEN <<48 + n>> ELSE Append(NatToStr(n \div 10), 48 + (n % 10))

\* Decimal digits as text: the digits without their leading zeros, and
\* without their trailing zeros.
StripLeadingZeros(d) == IF d = <<>> THEN d ELSE SubSeq(d, RunEnd(d, 1, {48}), Len(d))

StripTrailingZeros(d) ==
  LET nz == { k \in 1..Len(d) : d[k] /= 48 }
  IN  IF nz = {} THEN <<>> ELSE SubSeq(d, 1, CHOOSE k \in nz : \A m \in nz : m <= k)

Zeros(n) == [k \in 1..n |-> 48]

\* The significant digits that tell any two binary64 values apart.
FloatReprDigits == 17

\* The value of the digits of an exponent, cut off where the result no longer
\* depends on it.
ExponentValue(d) ==
  IF Len(StripLeadingZeros(d)) > 5 THEN 99999
  ELSE DigitsValue(StripLeadingZeros(d), 1, Len(StripLeadingZeros(d)) + 1, 0)

\* float_repr_style 'short', format code 'r': the text of the finite non-zero
\* value 0.sig * 10^decpt, sig being its shortest digits: positional for
\* -4 < decpt <= 16, with an exponent of at least two digits otherwise.
FormatFloat(sig, decpt) ==
  LET n == Len(sig)
      e == decpt - 1
  IN  IF decpt > -4 /\ decpt <= 16
      THEN IF decpt <= 0 THEN <<48, 46>> \o Zeros(0 - decpt) \o sig
           ELSE IF decpt >= n THEN sig \o Zeros(decpt - n) \o <<46, 48>>
           ELSE SubSeq(sig, 1, decpt) \o <<46>> \o SubSeq(sig, decpt + 1, n)
      ELSE <<sig[1]>> \o (IF n > 1 THEN <<46>> \o SubSeq(sig, 2, n) ELSE <<>>)
           \o <<101>> \o (IF e < 0 THEN <<45>> ELSE <<43>>)
           \o (IF e > -10 /\ e < 10 THEN <<48>> ELSE <<>>)
           \o NatToStr(IF e < 0 THEN 0 - e ELSE e)

\* --------------------------------------------------------------------------
\* float(text) and repr(float): exact arithmetic on naturals of any size
\* --------------------------------------------------------------------------

\* A natural number of any size is the sequence of its digits in base Base,
\* lowest first, without high zero digits; zero is <<>>.
Base == 10000

BigNorm(a) ==
  LET nz == { k \in 1..Len(a) : a[k] /= 0 }
  IN  IF nz = {} THEN <<>> ELSE SubSeq(a, 1, CHOOSE k \in nz : \A m \in nz : m <= k)

BigLess(a, b) ==
  \/ Len(a) < Len(b)
  \/ /\ Len(a) = Len(b)
     /\ \E k \in 1..Len(a) : a[k] < b[k] /\ \A m \in (k + 1)..Len(a) : a[m] = b[m]

\* The number written by the decimal digits d (code points), and back.
BigFromDigits(d) ==
  LET n == Len(d)
      dig(r) == IF r < n THEN d[n - r] - 48 ELSE 0
  IN  BigNorm(<<>> \o [i \in 1..((n + 3) \div 4) |->
                          dig(4 * i - 4) + 10 * dig(4 * i - 3) + 100 * dig(4 * i - 2)
                          + 1000 * dig(4 * i - 1)])

BigToDigits(a) ==
  StripLeadingZeros(<<>> \o [p \in 1..(4 * Len(a)) |->
    48 + ((a[Len(a) - ((p - 1) \div 4)] \div (10 ^ (3 - ((p - 1) % 4)))) % 10)])

\* Two steps of carrying over the naturals t: in each, every digit keeps its
\* remainder by Base and hands the quotient to the next digit.  Digits below
\* 2^31 come out below 2 * Base - 1.
CarryOnce(t, i) ==
  (IF i >= 1 /\ i <= Len(t) THEN t[i] % Base ELSE 0)
  + (IF i >= 2 /\ i <= Len(t) + 1 THEN t[i - 1] \div Base ELSE 0)

CarryTwice(t) ==
  <<>> \o [i \in 1..(Len(t) + 2) |-> (CarryOnce(t, i) % Base) + (CarryOnce(t, i - 1) \div Base)]

\* The carry into digit i of digits t < 2 * Base - 1: the nearest lower digit
\* that is not Base - 1 decides it.
CarryInto(t, i) ==
  IF i = 1 THEN 0
  ELSE IF t[i - 1] /= Base - 1 THEN (IF t[i - 1] >= Base THEN 1 ELSE 0)
  ELSE IF \E j \in 1..(i - 1) : t[j] >= Base /\ \A l \in (j + 1)..(i - 1) : t[l] = Base - 1
       THEN 1 ELSE 0

CarryLast(t) ==
  BigNorm(<<>> \o [i \in 1..(Len(t) + 1) |->
                      ((IF i <= Len(t) THEN t[i] ELSE 0) + CarryInto(t, i)) % Base])

\* The number whose digits, not yet carried, are the naturals t.
BigCarry(t) == CarryLast(CarryTwice(t))

BigAdd(a, b) ==
  IF a = <<>> THEN b
  ELSE IF b = <<>> THEN a
  ELSE BigCarry(<<>> \o [i \in 1..(IF Len(a) > Len(b) THEN Len(a) ELSE Len(b)) |->
                            (IF i <= Len(a) THEN a[i] ELSE 0) + (IF i <= Len(b) THEN b[i] ELSE 0)])

\* a * c for a small natural c.
BigMulSmall(a, c) ==
  IF a = <<>> \/ c = 0 THEN <<>>
  ELSE BigCarry(<<>> \o [i \in 1..Len(a) |-> a[i] * c])

\* a - b for a >= b: digit i borrows where a is below b at the nearest lower
\* digit where they differ.
BigSub(a, b) ==
  LET sub(i)    == IF i <= Len(b) THEN b[i] ELSE 0
      borrow(i) == IF i = 1 THEN 0
                   ELSE IF a[i - 1] /= sub(i - 1) THEN (IF a[i - 1] < sub(i - 1) THEN 1 ELSE 0)
                   ELSE IF \E j \in 1..(i - 1) :
                             a[j] < sub(j) /\ \A l \in (j + 1)..(i - 1) : a[l] = sub(l)
                        THEN 1 ELSE 0
  IN  IF b = <<>> THEN a
      ELSE BigNorm(<<>> \o [i \in 1..Len(a) |-> (a[i] - sub(i) - borrow(i) + Base) % Base])

\* a * c for c of at most 16 digits: digit i of the product before carrying
\* is the sum of a[i - j + 1] * c[j], below 2^31.
Term(a, c, i, j) ==
  IF j <= Len(c) /\ i - j + 1 >= 1 /\ i - j + 1 <= Len(a) THEN a[i - j + 1] * c[j] ELSE 0

Dot4(a, c, i, j) == Term(a, c, i, j) + Term(a, c, i, j + 1) + Term(a, c, i, j + 2) + Term(a, c, i, j + 3)

BigMul16(a, c) ==
  IF a = <<>> \/ c = <<>> THEN <<>>
  ELSE BigCarry(<<>> \o [i \in 1..(Len(a) + Len(c) - 1) |->
                       Dot4(a, c, i, 1) + Dot4(a, c, i, 5) + Dot4(a, c, i, 9) + Dot4(a, c, i, 13)])

\* a * b for b of at most 256 digits: the sum of the products of a by the
\* runs of 16 digits of b, each at its place.
PartAt(parts, j, i) ==
  IF j <= Len(parts) /\ i - 16 * (j - 1) >= 1 /\ i - 16 * (j - 1) <= Len(parts[j])
  THEN parts[j][i - 16 * (j - 1)] ELSE 0

Sum4(parts, j, i) ==
  PartAt(parts, j, i) + PartAt(parts, j + 1, i) + PartAt(parts, j + 2, i) + PartAt(parts, j + 3, i)

SumParts(parts, n) ==
  BigCarry(<<>> \o [i \in 1..n |->
                      Sum4(parts, 1, i) + Sum4(parts, 5, i) + Sum4(parts, 9, i) + Sum4(parts, 13, i)])

BigMul(a, b) ==
  IF a = <<>> \/ b = <<>> THEN <<>>
  ELSE IF Len(b) <= 16 THEN BigMul16(a, b)
  ELSE SumParts(<<>> \o [j \in 1..((Len(b) + 15) \div 16) |->
                             BigMul16(a, SubSeq(b, 16 * j - 15,
                                                IF 16 * j < Len(b) THEN 16 * j ELSE Len(b)))],
                Len(a) + Len(b))

\* Powers of two and of five: small[r + 1] = b^r for r < 16, mid[j + 1] =
\* b^(16 j) for j < 16 and big[j + 1] = b^(256 j) for j < 5.
PowTable ==
  [ two |->
    [ small |->
      <<<<1>>, <<2>>, <<4>>, <<8>>, <<16>>, <<32>>, <<64>>, <<128>>, <<256>>, <<512>>, <<1024>>, <<2048>>, <<4096>>, <<8192>>, <<6384, 1>>, <<2768, 3>>>>,
      mid |->
      <<<<1>>, <<5536, 6>>, <<7296, 9496, 42>>, <<656, 7671, 4749, 281>>,
      <<1616, 955, 737, 6744, 1844>>, <<6176, 7470, 6291, 9614, 2581, 2089,
      1>>, <<336, 4395, 5935, 4337, 1426, 1625, 9228, 7>>, <<96, 2922, 4963,
      8530, 2762, 5348, 6858, 9229, 51>>, <<1456, 6821, 4317, 4607, 6337,
      4634, 938, 6692, 2823, 340>>, <<416, 598, 3615, 2648, 1827, 5357, 3141,
      3062, 1985, 745, 2230>>, <<2976, 3254, 6559, 3019, 1628, 8327, 3684,
      1820, 9029, 7330, 163, 4615, 1>>, <<5136, 3647, 1951, 6171, 2397, 8943,
      9196, 9668, 6473, 8053, 411, 9713, 5780, 9>>, <<2896, 3451, 4640, 5444,
      235, 4161, 7666, 2320, 7894, 3835, 8076, 3866, 1735, 7710, 62>>, <<2256,
      3715, 9658, 8394, 6640, 6839, 6245, 3762, 6393, 2295, 3874, 5105, 301,
      3933, 3761, 411>>, <<9216, 1024, 1036, 2481, 4057, 4225, 7144, 7363,
      6306, 7019, 1508, 6670, 9794, 5063, 6671, 9946, 2695>>, <<9776, 9261,
      2012, 1606, 5812, 6189, 6875, 8389, 8274, 8515, 4291, 5007, 3297, 2958,
      3843, 4778, 4706, 7668, 1>>>>,
      big |->
      <<<<1>>, <<9936, 2963, 9131, 4007, 5758, 394, 564, 6564, 9846, 3269,
      785, 6879, 5008, 7098, 4235, 6195, 3731, 892, 5792, 11>>, <<4096, 608,
      6490, 6433, 6994, 9465, 2811, 5388, 8537, 6050, 8648, 8581, 31, 2769,
      9034, 8166, 7429, 8018, 6976, 7354, 300, 1764, 4372, 5614, 7723, 9337,
      5923, 5820, 7936, 1274, 5846, 9820, 249, 9574, 9709, 9425, 7929, 780,
      134>>, <<7856, 1605, 8538, 2846, 5089, 4687, 3716, 9919, 2629, 4825,
      9844, 6315, 5285, 5026, 9055, 849, 7602, 4549, 9204, 8113, 411, 7275,
      4428, 3914, 4814, 4411, 5800, 6171, 7320, 1310, 697, 8773, 9504, 6477,
      2864, 4088, 878, 8633, 3768, 2686, 5095, 260, 2038, 3905, 6111, 6696,
      1711, 8860, 5256, 255, 4625, 9488, 4897, 9351, 708, 9230, 5180, 1552>>,
      <<7216, 2413, 6242, 6329, 3535, 3048, 9716, 3847, 2459, 9947, 9823,
      5862, 684, 5051, 1633, 7237, 4082, 1105, 3913, 8147, 4628, 2342, 5068,
      8381, 5768, 8500, 9520, 3082, 1945, 941, 1246, 1960, 3022, 5276, 6548,
      4248, 7893, 7776, 1243, 9474, 3063, 8474, 2492, 1662, 8144, 9768, 5878,
      3576, 1393, 7987, 1138, 1120, 3602, 4075, 7322, 847, 1327, 963, 550,
      6758, 7732, 8115, 4300, 7273, 3065, 8942, 7697, 6179, 4733, 8902, 1907,
      9305, 772, 3159, 4862, 9313, 7976, 1>>>> ],
    five |->
    [ small |->
      <<<<1>>, <<5>>, <<25>>, <<125>>, <<625>>, <<3125>>, <<5625, 1>>, <<8125,
      7>>, <<625, 39>>, <<3125, 195>>, <<5625, 976>>, <<8125, 4882>>, <<625,
      4414, 2>>, <<3125, 2070, 12>>, <<5625, 351, 61>>, <<8125, 1757, 305>>>>,
      mid |->
      <<<<1>>, <<625, 8789, 1525>>, <<625, 6289, 3869, 4365, 8306, 232>>,
      <<625, 3789, 6213, 9355, 92, 8005, 3678, 5271, 35>>, <<625, 1289, 8557,
      4970, 43, 7264, 7003, 5221, 2427, 1086, 4210, 5>>, <<625, 8789, 900,
      1211, 5658, 2853, 6996, 6920, 1408, 7487, 276, 2553, 8061, 8271>>,
      <<625, 6289, 3244, 8076, 4436, 9617, 1302, 7477, 5796, 4524, 5704, 5876,
      8886, 3618, 4835, 1774, 1262>>, <<625, 3789, 5588, 5566, 3879, 2399,
      8195, 1538, 6482, 8101, 1853, 9273, 2584, 7794, 559, 5853, 8723, 9443,
      5929, 192>>, <<625, 1289, 7932, 3681, 1486, 6043, 6569, 8792, 3771,
      1880, 9302, 3891, 4666, 1945, 5614, 4305, 8413, 9921, 1876, 557, 5877,
      3873, 29>>, <<625, 8789, 275, 2422, 4757, 5392, 5947, 1464, 4733, 5084,
      2618, 6962, 8504, 4004, 3821, 968, 1620, 2773, 6665, 5934, 2695, 4146,
      5839, 5508, 4841, 4>>, <<625, 6289, 2619, 1787, 1192, 5291, 6475, 1819,
      537, 927, 2052, 9306, 9979, 8255, 6667, 8924, 1306, 9040, 9766, 9360,
      9077, 3355, 1977, 8541, 6020, 5783, 2776, 6842>>, <<625, 3789, 4963,
      1777, 8291, 582, 8925, 9661, 3802, 5663, 9635, 5977, 9135, 5571, 8751,
      1832, 4138, 6476, 1034, 8129, 1862, 8912, 4760, 4810, 7057, 7364, 9242,
      9763, 1487, 487, 1044>>, <<625, 1289, 7307, 2392, 3554, 6111, 4692,
      9834, 5940, 8268, 7201, 9874, 4308, 1609, 3058, 151, 1629, 3386, 8585,
      738, 8786, 9261, 5551, 1104, 559, 7118, 7767, 8039, 288, 2277, 3245,
      9111, 3091, 159>>, <<625, 8789, 9650, 3632, 4481, 6720, 5799, 9719,
      4496, 740, 3815, 8162, 4818, 6533, 7844, 7124, 1656, 4507, 1070, 2226,
      7765, 6236, 1367, 591, 4067, 7253, 8056, 314, 7861, 2100, 1500, 9353,
      847, 9145, 5342, 3086, 24>>, <<625, 6289, 1994, 5498, 8572, 7253, 4892,
      6738, 495, 9027, 115, 1360, 8919, 3633, 4375, 3208, 8272, 3120, 8997,
      2935, 956, 1340, 1758, 589, 3039, 245, 7910, 8757, 6477, 3675, 9513,
      4763, 2615, 1735, 8573, 4213, 687, 615, 7092, 3>>, <<625, 3789, 4338,
      7988, 3327, 2555, 5243, 5851, 5784, 4579, 7080, 4926, 4353, 5486, 4560,
      2027, 1587, 8812, 7559, 1574, 2207, 9671, 5281, 4120, 8832, 2096, 4306,
      8913, 3684, 6961, 9883, 5819, 2926, 6986, 8048, 9556, 9319, 2296, 6695,
      2426, 7994, 5659>>>>,
      big |->
      <<<<1>>, <<625, 1289, 6682, 1103, 6247, 7468, 747, 7058, 377, 6530,
      6693, 3194, 9468, 5098, 9699, 6635, 6149, 9394, 5472, 6560, 8822, 4722,
      7503, 7150, 579, 2427, 316, 5918, 168, 347, 237, 1385, 3628, 3644, 6000,
      7111, 3995, 2800, 5186, 3863, 4625, 9444, 5550, 6168, 863>>, <<625,
      1289, 4182, 5947, 3268, 5788, 1789, 1989, 1533, 9008, 2649, 6573, 6968,
      5184, 4335, 2927, 361, 6460, 6628, 3651, 583, 7206, 1533, 3502, 9265,
      6369, 2975, 2742, 322, 8230, 1686, 2003, 5071, 588, 1726, 4142, 4765,
      6391, 3650, 6554, 4144, 2629, 6435, 7426, 2040, 7495, 8137, 3187, 792,
      8126, 6914, 2084, 2959, 1648, 486, 266, 2253, 8095, 1272, 4534, 6101,
      5583, 6032, 1511, 336, 4278, 400, 7489, 9361, 8304, 7011, 3850, 6278,
      3320, 5183, 4271, 689, 6004, 1534, 7647, 8373, 2933, 1546, 9653, 3290,
      674, 2002, 731, 5834, 74>>, <<625, 1289, 1682, 791, 290, 4733, 9745,
      2703, 6900, 8945, 9204, 7632, 9543, 65, 4513, 8931, 7729, 5036, 4597,
      1014, 2434, 9367, 7291, 7022, 7713, 5960, 5513, 2160, 3779, 9882, 1991,
      5599, 9227, 9752, 4377, 9539, 6482, 3345, 6865, 7168, 6250, 6853, 3259,
      7722, 9799, 9405, 6650, 8350, 5244, 2668, 7685, 9114, 4879, 4266, 7135,
      2357, 6903, 3884, 4517, 8987, 8071, 3683, 3972, 5816, 1121, 214, 7931,
      7555, 2176, 2915, 773, 6793, 3576, 5855, 6070, 9969, 6027, 2069, 2593,
      234, 348, 4784, 6717, 2705, 4380, 2863, 9100, 725, 7887, 492, 5088,
      8060, 7590, 2953, 5453, 1374, 5222, 5904, 5734, 7464, 4625, 7190, 4722,
      4947, 6671, 4914, 1808, 8562, 668, 6126, 5225, 8972, 6462, 369, 2756,
      2693, 3236, 3229, 7099, 3075, 3584, 6563, 4439, 1331, 2048, 2505, 6885,
      5033, 7036, 822, 1333, 9597, 4876, 4411, 6>>, <<625, 1289, 9182, 5634,
      7311, 4302, 4615, 6702, 8822, 6957, 5996, 2175, 1689, 5341, 3851, 4227,
      2728, 3735, 6491, 2146, 4493, 9349, 5231, 1731, 5971, 7669, 5793, 4724,
      5217, 833, 4328, 4268, 4182, 9472, 3306, 5790, 2547, 1882, 1179, 7127,
      385, 7635, 9153, 6417, 5404, 6185, 403, 7506, 1102, 4633, 422, 6570,
      8692, 3477, 5190, 7028, 1211, 1051, 1594, 707, 1803, 877, 1416, 4537,
      4079, 1831, 4051, 3429, 8257, 9662, 8693, 8415, 7834, 8665, 7765, 6037,
      7481, 2900, 2222, 3978, 4902, 9892, 5371, 8097, 2858, 3380, 8108, 1299,
      4415, 5271, 2899, 2480, 3951, 8448, 2783, 4661, 1770, 1456, 9964, 2884,
      2627, 2901, 9511, 3628, 7487, 3843, 2219, 9945, 1869, 5762, 2529, 7719,
      1589, 2125, 991, 1479, 4992, 2279, 1801, 9737, 6453, 6541, 1662, 1270,
      938, 3552, 2593, 7356, 1261, 8039, 179, 5909, 6064, 5368, 9902, 8261, 5,
      8383, 9449, 2826, 9705, 4442, 963, 4003, 2721, 3650, 388, 854, 2881,
      2751, 5895, 9327, 6834, 4101, 7551, 3127, 8975, 5707, 8963, 7954, 7034,
      1108, 2180, 8542, 8331, 5763, 5829, 5115, 399, 548, 1016, 3310, 1793,
      2558, 4577, 8003, 4626, 6846, 5562>>>> ] ]

\* b^n for n < 1280, b being two or five.
Pow(b, n) ==
  BigMul(BigMul(PowTable[b].big[(n \div 256) + 1], PowTable[b].mid[((n % 256) \div 16) + 1]),
         PowTable[b].small[(n % 16) + 1])

\* a * 10^n.
MulPow10(a, n) ==
  IF a = <<>> THEN a ELSE [k \in 1..(n \div 4) |-> 0] \o BigMulSmall(a, 10 ^ (n % 4))

\* Quotient and remainder of d.r by v, the quotient having the digits p..0
\* above the digits d.q found so far.  With the remainder and w = v * Base^p
\* scaled so that the highest digit of w is at least Base / 2, the quotient of
\* the two highest digits of the remainder by the highest digit of w is the
\* next digit of the quotient or exceeds it by at most two.
RECURSIVE DivFrom(_, _, _)
DivFrom(d, v, p) ==
  LET top(rs, ws)   == (IF Len(rs) > Len(ws) THEN rs[Len(ws) + 1] * Base ELSE 0)
                       + (IF Len(rs) >= Len(ws) THEN rs[Len(ws)] ELSE 0)
      guess(rs, ws) == IF top(rs, ws) \div ws[Len(ws)] > Base - 1 THEN Base - 1
                       ELSE top(rs, ws) \div ws[Len(ws)]
      pick(w, g)    == IF g = 0 THEN 0
                       ELSE IF ~BigLess(d.r, BigMulSmall(w, g)) THEN g
                       ELSE IF g = 1 \/ ~BigLess(d.r, BigMulSmall(w, g - 1)) THEN g - 1
                       ELSE g - 2
      digit(w, sc)  == pick(w, guess(BigMulSmall(d.r, sc), BigMulSmall(w, sc)))
      next(w, q)    == [q |-> <<q>> \o d.q, r |-> BigSub(d.r, BigMulSmall(w, q))]
      step(w)       == next(w, digit(w, Base \div (w[Len(w)] + 1)))
  IN  IF d.r = <<>> \/ p < 0 THEN [q |-> BigNorm([k \in 1..(p + 1) |-> 0] \o d.q), r |-> d.r]
      ELSE DivFrom(step(MulPow10(v, 4 * p)), v, p - 1)

\* binary64: bits of mantissa m, and values m * 2^k with min <= k <= max.
Binary64 == [bits |-> 53, min |-> -1074, max |-> 971]

\* The quotient q (remainder r, divisor v) of a value by 2^k, rounded to
\* nearest, ties to even, as the mantissa at exponent k.
RoundNearest(qr, v, k) ==
  LET twice == BigMulSmall(qr.r, 2)
      m     == IF BigLess(v, twice) \/ (twice = v /\ qr.q /= <<>> /\ qr.q[1] % 2 = 1)
               THEN BigAdd(qr.q, <<1>>) ELSE qr.q
  IN  IF m = <<>> THEN [kind |-> "zero", m |-> <<>>, k |-> 0]
      ELSE IF m /= Pow("two", Binary64.bits) THEN [kind |-> "finite", m |-> m, k |-> k]
      ELSE IF k + 1 > Binary64.max THEN [kind |-> "inf", m |-> <<>>, k |-> 0]
      ELSE [kind |-> "finite", m |-> Pow("two", Binary64.bits - 1), k |-> k + 1]

\* u / v as the binary64 value with exponent k.
FloatAt(u, v, k) ==
  IF k > Binary64.max THEN [kind |-> "inf", m |-> <<>>, k |-> 0]
  ELSE RoundNearest(DivFrom([q |-> <<>>, r |-> BigMul(u, Pow("two", IF k < 0 THEN 0 - k ELSE 0))],
                            BigMul(v, Pow("two", IF k > 0 THEN k ELSE 0)), 3),
                    BigMul(v, Pow("two", IF k > 0 THEN k ELSE 0)), k)

\* u / v as a binary64 value: its exponent is the least k with
\* u / v < 2^(k + Binary64.bits), not below Binary64.min; est is at most 2 above it
\* and at most 6 below.
FloatRatio(u, v, est) ==
  LET ks    == { k \in (est - 2)..(est + 6) :
                   BigLess(BigMul(u, Pow("two", IF k + Binary64.bits < 0 THEN 0 - (k + Binary64.bits) ELSE 0)),
                           BigMul(v, Pow("two", IF k + Binary64.bits > 0 THEN k + Binary64.bits ELSE 0))) }
      least == CHOOSE k \in ks : \A j \in ks : k <= j
  IN  FloatAt(u, v, IF least < Binary64.min THEN Binary64.min ELSE least)

\* The binary64 value nearest to d * 10^e (ties to even), d being decimal
\* digits without leading zeros: _Py_dg_strtod.
FloatNearest(d, e) ==
  IF d = <<>> \/ Len(d) + e < -325 THEN [kind |-> "zero", m |-> <<>>, k |-> 0]
  ELSE IF Len(d) + e > 310 THEN [kind |-> "inf", m |-> <<>>, k |-> 0]
  ELSE FloatRatio(MulPow10(BigFromDigits(d), IF e > 0 THEN e ELSE 0),
                  MulPow10(<<1>>, IF e < 0 THEN 0 - e ELSE 0),
                  ((((Len(d) + e - 1) * 33219) - (((Len(d) + e - 1) * 33219) % 10000)) \div 10000)
                  - (Binary64.bits - 1))

\* The shortest digits that read back as m * 2^k, the nearest to it where
\* several do: _Py_dg_dtoa in mode 0.  x is the value and p the weight of the
\* last bit of m, both in units of 10^min(k, 0); lo4 and hi4 are four times
\* the midpoints to the neighbouring values, which read back as m * 2^k where
\* m is even.  sig is the digits and carry is 1 where rounding up gave the
\* value one digit more before the point.
ShortestDigits(m, k) ==
  LET inside(c4, lo4, hi4) ==
        IF m[1] % 2 = 0 THEN ~BigLess(c4, lo4) /\ ~BigLess(hi4, c4)
        ELSE BigLess(lo4, c4) /\ BigLess(c4, hi4)
      floor(xs, n)  == BigFromDigits(SubSeq(xs, 1, n) \o Zeros(Len(xs) - n))
      ceil(xs, n)   == BigAdd(floor(xs, n), MulPow10(<<1>>, Len(xs) - n))
      out(digits, xs) == [sig |-> StripTrailingZeros(digits), carry |-> Len(digits) - Len(xs)]
      nearer(x, f, c, inF, inC) ==
        IF inF /\ (~inC \/ BigLess(BigSub(x, f), BigSub(c, x))) THEN BigToDigits(f)
        ELSE BigToDigits(c)
      at(x, xs, n, lo4, hi4) ==
        out(nearer(x, floor(xs, n), ceil(xs, n),
                   inside(BigMulSmall(floor(xs, n), 4), lo4, hi4),
                   inside(BigMulSmall(ceil(xs, n), 4), lo4, hi4)), xs)
      first(ns)     == CHOOSE n \in ns : \A j \in ns : n <= j
      among(x, xs, lo4, hi4) ==
        at(x, xs,
           first({ n \in 1..(IF Len(xs) < FloatReprDigits THEN Len(xs) ELSE FloatReprDigits) :
                     \/ inside(BigMulSmall(floor(xs, n), 4), lo4, hi4)
                     \/ inside(BigMulSmall(ceil(xs, n), 4), lo4, hi4) }),
           lo4, hi4)
      of(x, p)      ==
        among(x, BigToDigits(x),
              BigSub(BigMulSmall(x, 4),
                     BigMulSmall(p, IF m = Pow("two", Binary64.bits - 1) /\ k > Binary64.min THEN 1 ELSE 2)),
              BigAdd(BigMulSmall(x, 4), BigMulSmall(p, 2)))
  IN  IF k >= 0 THEN of(BigMul(m, Pow("two", k)), Pow("two", k))
      ELSE of(BigMul(m, Pow("five", 0 - k)), Pow("five", 0 - k))

\* repr(x) of the magnitude x: the digits of ShortestDigits, the point after
\* the first digit of m * 2^k.
FloatRepr(x) ==
  LET text(s, point) == FormatFloat(s.sig, point + s.carry)
  IN  IF x.kind = "zero" THEN <<48, 46, 48>>
      ELSE IF x.kind = "inf" THEN <<105, 110, 102>>
      ELSE text(ShortestDigits(x.m, x.k),
                IF x.k >= 0 THEN Len(BigToDigits(BigMul(x.m, Pow("two", x.k))))
                ELSE Len(BigToDigits(BigMul(x.m, Pow("five", 0 - x.k)))) + x.k)

\* repr(float(text)) of the magnitude 0.sig * 10^decpt (sig without leading
\* zeros).
FloatMagnitude(sig, decpt) == FloatRepr(FloatNearest(sig, decpt - Len(sig)))

\* PyFloat_FromString on the text of a JSON number: sign, integer digits ip,
\* fraction digits fp, exponent ex.
FloatOf(neg, ip, fp, ex) ==
  LET all   == ip \o fp
      lead  == RunEnd(all, 1, {48}) - 1
      sig   == StripTrailingZeros(StripLeadingZeros(all))
  IN  JFloat((IF neg THEN <<45>> ELSE <<>>) \o FloatMagnitude(sig, Len(ip) - lead + ex))

\* _match_number: the JSON number -?(0|[1-9][0-9]*)(\.[0-9]+)?([eE][-+]?[0-9]+)?
\* at s[i]: an int if it has neither fraction nor exponent, else a float.  A
\* "." or an exponent mark that no digit follows is left unread.
ParseNumber(s, i) ==
  LET neg == s[i] = 45
      j   == IF neg THEN i + 1 ELSE i
  IN  IF j > Len(s) \/ ~IsDigit(s[j]) THEN ParseFail
      ELSE LET e    == IF s[j] = 48 THEN j + 1 ELSE DigitsEnd(s, j)
               frac == e + 1 <= Len(s) /\ s[e] = 46 /\ IsDigit(s[e + 1])
               f    == IF frac THEN DigitsEnd(s, e + 1) ELSE e
               sgn  == f + 1 <= Len(s) /\ s[f] \in {69, 101} /\ s[f + 1] \in {43, 45}
               x    == IF sgn THEN f + 2 ELSE f + 1
               exp  == f + 1 <= Len(s) /\ s[f] \in {69, 101} /\ x <= Len(s) /\ IsDigit(s[x])
               g    == IF exp THEN DigitsEnd(s, x) ELSE f
               ex   == IF ~exp THEN 0
                       ELSE IF sgn /\ s[f + 1] = 45 THEN 0 - ExponentValue(SubSeq(s, x, g - 1))
                       ELSE ExponentValue(SubSeq(s, x, g - 1))
           IN  IF frac \/ exp
               THEN ParseOk(FloatOf(neg, SubSeq(s, j, e - 1),
                                    IF frac THEN SubSeq(s, e + 1, f - 1) ELSE <<>>, ex), g)
               ELSE ParseOk(JInt(IF neg THEN 0 - DigitsValue(s, j, e, 0)
                                 ELSE DigitsValue(s, j, e, 0)), e)

HexValue(c) ==
  IF IsDigit(c) THEN c - 48
  ELSE IF c >= 97 /\ c <= 102 THEN c - 87
  ELSE IF c >= 65 /\ c <= 70 THEN c - 55
  ELSE -1

\* The character a backslash escape \c stands for, -1 if there is none.
EscapeChar(c) ==
  IF c = 34 THEN 34 ELSE IF c = 92 THEN 92 ELSE IF c = 47 THEN 47
  ELSE IF c = 98 THEN 8 ELSE IF c = 102 THEN 12 ELSE IF c = 110 THEN 10
  ELSE IF c = 114 THEN 13 ELSE IF c = 116 THEN 9 ELSE -1

\* Whether s[i..i+5] is an escape \uXXXX.
IsU4(s, i) ==
  /\ i + 5 <= Len(s)
  /\ s[i] = 92
  /\ s[i + 1] = 117
  /\ \A k \in 2..5 : HexValue(s[i + k]) >= 0

U4Value(s, i) ==
  HexValue(s[i + 2]) * 4096 + HexValue(s[i + 3]) * 256
  + HexValue(s[i + 4]) * 16 + HexValue(s[i + 5])

\* A character of a string body that is neither its end, nor an escape, nor
\* a control character (STRINGCHUNK's first group).
IsPlain(c) == c /= 34 /\ c /= 92 /\ c >= 32

RECURSIVE StringBody(_, _, _)
\* py_scanstring, strict: the body of a JSON string from s[i] to its closing
\* quote, chunk by chunk: a run of plain characters, then the quote, an
\* escape or a control character; a \uD8xx\uDCxx pair is one character.
StringBody(s, i, acc) ==
  IF i > Len(s) THEN ParseFail
  ELSE IF IsPlain(s[i])
       THEN StringBody(s, RunEnd(s, i, {c \in Nat : IsPlain(c)}),
                       acc \o SubSeq(s, i, RunEnd(s, i, {c \in Nat : IsPlain(c)}) - 1))
  ELSE IF s[i] = 34 THEN ParseOk(JStr(acc), i + 1)
  ELSE IF s[i] < 32 THEN ParseFail
  ELSE IF i + 1 > Len(s) THEN ParseFail
  ELSE IF s[i + 1] = 117
       THEN IF ~IsU4(s, i) THEN ParseFail
            ELSE IF /\ U4Value(s, i) >= 55296 /\ U4Value(s, i) <= 56319
                    /\ IsU4(s, i + 6)
                    /\ U4Value(s, i + 6) >= 56320 /\ U4Value(s, i + 6) <= 57343
                 THEN StringBody(s, i + 12,
                        Append(acc, 65536 + (U4Value(s, i) - 55296) * 1024
                                    + (U4Value(s, i + 6) - 56320)))
                 ELSE StringBody(s, i + 6, Append(acc, U4Value(s, i)))
  ELSE IF EscapeChar(s[i + 1]) >= 0
       THEN StringBody(s, i + 2, Append(acc, EscapeChar(s[i + 1])))
  ELSE ParseFail

RECURSIVE ParseValue(_, _)
RECURSIVE ParseElements(_, _, _)
RECURSIVE ParseMembers(_, _, _)

\* scan_once: the JSON value starting exactly at s[i].
ParseValue(s, i) ==
  IF i > Len(s) THEN ParseFail
  ELSE IF s[i] = 34 THEN StringBody(s, i + 1, <<>>)
  ELSE IF s[i] = 123
       THEN LET j == SkipWs(s, i + 1)
            IN  IF j <= Len(s) /\ s[j] = 125 THEN ParseOk(JObj(<<>>), j + 1)
                ELSE ParseMembers(s, j, <<>>)
  ELSE IF s[i] = 91
       THEN LET j == SkipWs(s, i + 1)
            IN  IF j <= Len(s) /\ s[j] = 93 THEN ParseOk(JArr(<<>>), j + 1)
                ELSE ParseElements(s, j, <<>>)
  ELSE IF StartsAt(s, i, S("null")) THEN ParseOk(JNull, i + 4)
  ELSE IF StartsAt(s, i, S("true")) THEN ParseOk(JBool(TRUE), i + 4)
  ELSE IF StartsAt(s, i, S("false")) THEN ParseOk(JBool(FALSE), i + 5)
  ELSE IF StartsAt(s, i, S("NaN")) THEN ParseOk(JFloat(S("nan")), i + 3)
  ELSE IF StartsAt(s, i, S("Infinity")) THEN ParseOk(JFloat(S("inf")), i + 8)
  ELSE IF StartsAt(s, i, S("-Infinity")) THEN ParseOk(JFloat(S("-inf")), i + 9)
  ELSE IF s[i] = 45 \/ IsDigit(s[i]) THEN ParseNumber(s, i)
  ELSE ParseFail

\* JSONArray: the elements from s[i] on, after "[" and whitespace.
ParseElements(s, i, acc) ==
  LET r == ParseValue(s, i)
  IN  IF ~r.ok THEN ParseFail
      ELSE LET j == SkipWs(s, r.next)
           IN  IF j > Len(s) THEN ParseFail
               ELSE IF s[j] = 93 THEN ParseOk(JArr(Append(acc, r.val)), j + 1)
               ELSE IF s[j] = 44 THEN ParseElements(s, SkipWs(s, j + 1), Append(acc, r.val))
               ELSE ParseFail

\* JSONObject: the members from s[i] on, after "{" (or ",") and whitespace.
ParseMembers(s, i, acc) ==
  IF i > Len(s) \/ s[i] /= 34 THEN ParseFail
  ELSE LET k == StringBody(s, i + 1, <<>>)
       IN  IF ~k.ok THEN ParseFail
           ELSE LET c == SkipWs(s, k.next)
                IN  IF c > Len(s) \/ s[c] /= 58 THEN ParseFail
                    ELSE LET r == ParseValue(s, SkipWs(s, c + 1))
                         IN  IF ~r.ok THEN ParseFail
                             ELSE LET j   == SkipWs(s, r.next)
                                      new == DictSet(acc, k.val.v, r.val)
                                  IN  IF j > Len(s) THEN ParseFail
                                      ELSE IF s[j] = 125 THEN ParseOk(JObj(new), j + 1)
                                      ELSE IF s[j] = 44
                                           THEN ParseMembers(s, SkipWs(s, j + 1), new)
                                      ELSE ParseFail

\* json.loads(text): ok = FALSE stands for json.JSONDecodeError (no value, or
\* extra data after the value).
json_loads(text) ==
  LET r == ParseValue(text, SkipWs(text, 1))
  IN  IF r.ok /\ SkipWs(text, r.next) = Len(text) + 1
      THEN [ok |-> TRUE, val |-> r.val]
      ELSE [ok |-> FALSE, val |-> JNull]

\* --------------------------------------------------------------------------
\* json.dumps (default separators ", " and ": ", ensure_ascii)
\* --------------------------------------------------------------------------

\* str(n) of an int
IntToStr(n) == IF n < 0 THEN <<45>> \o NatToStr(0 - n) ELSE NatToStr(n)

\* \uXXXX
U4(c) ==
  <<92, 117, HexDigits[(c \div 4096) + 1], HexDigits[((c \div 256) % 16) + 1],
    HexDigits[((c \div 16) % 16) + 1], HexDigits[(c % 16) + 1]>>

\* The escape of one character of a string (ESCAPE_ASCII).
DumpChar(c) ==
  IF c = 34 THEN <<92, 34>>
  ELSE IF c = 92 THEN <<92, 92>>
  ELSE IF c = 10 THEN <<92, 110>>
  ELSE IF c = 13 THEN <<92, 114>>
  ELSE IF c = 9 THEN <<92, 116>>
  ELSE IF c = 12 THEN <<92, 102>>
  ELSE IF c = 8 THEN <<92, 98>>
  ELSE IF c >= 32 /\ c <= 126 THEN <<c>>
  ELSE IF c < 65536 THEN U4(c)
  ELSE U4(55296 + ((c - 65536) \div 1024)) \o U4(56320 + ((c - 65536) % 1024))

\* A character ESCAPE_ASCII leaves as it is.
IsUnescaped(c) == c >= 32 /\ c <= 126 /\ c /= 34 /\ c /= 92

RECURSIVE DumpChars(_, _)
\* The characters of a string from s[i] on: a run of characters that need no
\* escape is taken as it is, then one character is escaped.
DumpChars(s, i) ==
  IF i > Len(s) THEN <<>>
  ELSE IF IsUnescaped(s[i])
       THEN SubSeq(s, i, RunEnd(s, i, {c \in Nat : IsUnescaped(c)}) - 1)
            \o DumpChars(s, RunEnd(s, i, {c \in Nat : IsUnescaped(c)}))
  ELSE DumpChar(s[i]) \o DumpChars(s, i + 1)

\* encode_basestring_ascii
DumpString(s) == <<34>> \o DumpChars(s, 1) \o <<34>>

RECURSIVE json_dumps(_)
RECURSIVE DumpItems(_, _)
RECURSIVE DumpList(_, _)

\* "key": value joined by ", "
DumpItems(items, i) ==
  IF i > Len(items) THEN <<>>
  ELSE (IF i > 1 THEN <<44, 32>> ELSE <<>>)
       \o DumpString(items[i].k) \o <<58, 32>> \o json_dumps(items[i].v)
       \o DumpItems(items, i + 1)

DumpList(items, i) ==
  IF i > Len(items) THEN <<>>
  ELSE (IF i > 1 THEN <<44, 32>> ELSE <<>>) \o json_dumps(items[i]) \o DumpList(items, i + 1)

\* json.dumps(x)
json_dumps(x) ==
  IF x.t = "null" THEN S("null")
  ELSE IF x.t = "bool" THEN (IF x.v THEN S("true") ELSE S("false"))
  ELSE IF x.t = "int" THEN IntToStr(x.v)
  ELSE IF x.t = "float"
       THEN (IF x.v = S("nan") THEN S("NaN")
             ELSE IF x.v = S("inf") THEN S("Infinity")
             ELSE IF x.v = S("-inf") THEN S("-Infinity")
             ELSE x.v)
  ELSE IF x.t = "str" THEN DumpString(x.v)
  ELSE IF x.t = "arr" THEN <<91>> \o DumpList(x.v, 1) \o <<93>>
  ELSE <<123>> \o DumpItems(x.v, 1) \o <<125>>

\* --------------------------------------------------------------------------
\* str.strip / str.lower / str.startswith / str.split / int
\* --------------------------------------------------------------------------

\* str.isspace of one character
IsSpace(c) ==
  \/ c \in {9, 10, 11, 12, 13, 28, 29, 30, 31, 32, 133, 160, 5760}
  \/ (c >= 8192 /\ c <= 8202)
  \/ c \in {8232, 8233, 8239, 8287, 12288}

LStrip(s) == IF s = <<>> THEN s ELSE SubSeq(s, RunEnd(s, 1, {c \in Nat : IsSpace(c)}), Len(s))

RECURSIVE RStrip(_)
RStrip(s) ==
  IF s /= <<>> /\ IsSpace(s[Len(s)]) THEN RStrip(SubSeq(s, 1, Len(s) - 1)) ELSE s

\* s.strip()
strip(s) == RStrip(LStrip(s))

\* str.lower() of the characters above ASCII that it changes into one other
\* character, as runs <<first, last, step, offset>> (Unicode 14.0.0, the
\* database of CPython 3.11).
LowerRuns ==
  { <<192, 214, 1, 32>>, <<216, 222, 1, 32>>, <<256, 302, 2, 1>>,
    <<306, 310, 2, 1>>, <<313, 327, 2, 1>>, <<330, 374, 2, 1>>,
    <<376, 376, 1, -121>>, <<377, 381, 2, 1>>, <<385, 385, 1, 210>>,
    <<386, 388, 2, 1>>, <<390, 390, 1, 206>>, <<391, 391, 1, 1>>,
    <<393, 394, 1, 205>>, <<395, 395, 1, 1>>, <<398, 398, 1, 79>>,
    <<399, 399, 1, 202>>, <<400, 400, 1, 203>>, <<401, 401, 1, 1>>,
    <<403, 403, 1, 205>>, <<404, 404, 1, 207>>, <<406, 406, 1, 211>>,
    <<407, 407, 1, 209>>, <<408, 408, 1, 1>>, <<412, 412, 1, 211>>,
    <<413, 413, 1, 213>>, <<415, 415, 1, 214>>, <<416, 420, 2, 1>>,
    <<422, 422, 1, 218>>, <<423, 423, 1, 1>>, <<425, 425, 1, 218>>,
    <<428, 428, 1, 1>>, <<430, 430, 1, 218>>, <<431, 431, 1, 1>>,
    <<433, 434, 1, 217>>, <<435, 437, 2, 1>>, <<439, 439, 1, 219>>,
    <<440, 440, 1, 1>>, <<444, 444, 1, 1>>, <<452, 452, 1, 2>>,
    <<453, 453, 1, 1>>, <<455, 455, 1, 2>>, <<456, 456, 1, 1>>,
    <<458, 458, 1, 2>>, <<459, 475, 2, 1>>, <<478, 494, 2, 1>>,
    <<497, 497, 1, 2>>, <<498, 500, 2, 1>>, <<502, 502, 1, -97>>,
    <<503, 503, 1, -56>>, <<504, 542, 2, 1>>, <<544, 544, 1, -130>>,
    <<546, 562, 2, 1>>, <<570, 570, 1, 10795>>, <<571, 571, 1, 1>>,
    <<573, 573, 1, -163>>, <<574, 574, 1, 10792>>, <<577, 577, 1, 1>>,
    <<579, 579, 1, -195>>, <<580, 580, 1, 69>>, <<581, 581, 1, 71>>,
    <<582, 590, 2, 1>>, <<880, 882, 2, 1>>, <<886, 886, 1, 1>>,
    <<895, 895, 1, 116>>, <<902, 902, 1, 38>>, <<904, 906, 1, 37>>,
    <<908, 908, 1, 64>>, <<910, 911, 1, 63>>, <<913, 929, 1, 32>>,
    <<932, 939, 1, 32>>, <<975, 975, 1, 8>>, <<984, 1006, 2, 1>>,
    <<1012, 1012, 1, -60>>, <<1015, 1015, 1, 1>>, <<1017, 1017, 1, -7>>,
    <<1018, 1018, 1, 1>>, <<1021, 1023, 1, -130>>, <<1024, 1039, 1, 80>>,
    <<1040, 1071, 1, 32>>, <<1120, 1152, 2, 1>>, <<1162, 1214, 2, 1>>,
    <<1216, 1216, 1, 15>>, <<1217, 1229, 2, 1>>, <<1232, 1326, 2, 1>>,
    <<1329, 1366, 1, 48>>, <<4256, 4293, 1, 7264>>, <<4295, 4295, 1, 7264>>,
    <<4301, 4301, 1, 7264>>, <<5024, 5103, 1, 38864>>, <<5104, 5109, 1, 8>>,
    <<7312, 7354, 1, -3008>>, <<7357, 7359, 1, -3008>>, <<7680, 7828, 2, 1>>,
    <<7838, 7838, 1, -7615>>, <<7840, 7934, 2, 1>>, <<7944, 7951, 1, -8>>,
    <<7960, 7965, 1, -8>>, <<7976, 7983, 1, -8>>, <<7992, 7999, 1, -8>>,
    <<8008, 8013, 1, -8>>, <<8025, 8031, 2, -8>>, <<8040, 8047, 1, -8>>,
    <<8072, 8079, 1, -8>>, <<8088, 8095, 1, -8>>, <<8104, 8111, 1, -8>>,
    <<8120, 8121, 1, -8>>, <<8122, 8123, 1, -74>>, <<8124, 8124, 1, -9>>,
    <<8136, 8139, 1, -86>>, <<8140, 8140, 1, -9>>, <<8152, 8153, 1, -8>>,
    <<8154, 8155, 1, -100>>, <<8168, 8169, 1, -8>>, <<8170, 8171, 1, -112>>,
    <<8172, 8172, 1, -7>>, <<8184, 8185, 1, -128>>, <<8186, 8187, 1, -126>>,
    <<8188, 8188, 1, -9>>, <<8486, 8486, 1, -7517>>, <<8490, 8490, 1, -8383>>,
    <<8491, 8491, 1, -8262>>, <<8498, 8498, 1, 28>>, <<8544, 8559, 1, 16>>,
    <<8579, 8579, 1, 1>>, <<9398, 9423, 1, 26>>, <<11264, 11311, 1, 48>>,
    <<11360, 11360, 1, 1>>, <<11362, 11362, 1, -10743>>,
    <<11363, 11363, 1, -3814>>, <<11364, 11364, 1, -10727>>,
    <<11367, 11371, 2, 1>>, <<11373, 11373, 1, -10780>>,
    <<11374, 11374, 1, -10749>>, <<11375, 11375, 1, -10783>>,
    <<11376, 11376, 1, -10782>>, <<11378, 11378, 1, 1>>, <<11381, 11381, 1, 1>>,
    <<11390, 11391, 1, -10815>>, <<11392, 11490, 2, 1>>, <<11499, 11501, 2, 1>>,
    <<11506, 11506, 1, 1>>, <<42560, 42604, 2, 1>>, <<42624, 42650, 2, 1>>,
    <<42786, 42798, 2, 1>>, <<42802, 42862, 2, 1>>, <<42873, 42875, 2, 1>>,
    <<42877, 42877, 1, -35332>>, <<42878, 42886, 2, 1>>, <<42891, 42891, 1, 1>>,
    <<42893, 42893, 1, -42280>>, <<42896, 42898, 2, 1>>, <<42902, 42920, 2, 1>>,
    <<42922, 42922, 1, -42308>>, <<42923, 42923, 1, -42319>>,
    <<42924, 42924, 1, -42315>>, <<42925, 42925, 1, -42305>>,
    <<42926, 42926, 1, -42308>>, <<42928, 42928, 1, -42258>>,
    <<42929, 42929, 1, -42282>>, <<42930, 42930, 1, -42261>>,
    <<42931, 42931, 1, 928>>, <<42932, 42946, 2, 1>>, <<42948, 42948, 1, -48>>,
    <<42949, 42949, 1, -42307>>, <<42950, 42950, 1, -35384>>,
    <<42951, 42953, 2, 1>>, <<42960, 42960, 1, 1>>, <<42966, 42968, 2, 1>>,
    <<42997, 42997, 1, 1>>, <<65313, 65338, 1, 32>>, <<66560, 66599, 1, 40>>,
    <<66736, 66771, 1, 40>>, <<66928, 66938, 1, 39>>, <<66940, 66954, 1, 39>>,
    <<66956, 66962, 1, 39>>, <<66964, 66965, 1, 39>>, <<68736, 68786, 1, 64>>,
    <<71840, 71871, 1, 32>>, <<93760, 93791, 1, 32>>, <<125184, 125217, 1, 34>> }

\* The cased characters that are not case-ignorable, as ranges <<first, last>>.
CasedRanges ==
  { <<65, 90>>, <<97, 122>>, <<170, 170>>, <<181, 181>>, <<186, 186>>,
    <<192, 214>>, <<216, 246>>, <<248, 442>>, <<444, 447>>, <<452, 659>>,
    <<661, 687>>, <<880, 883>>, <<886, 887>>, <<891, 893>>, <<895, 895>>,
    <<902, 902>>, <<904, 906>>, <<908, 908>>, <<910, 929>>, <<931, 1013>>,
    <<1015, 1153>>, <<1162, 1327>>, <<1329, 1366>>, <<1376, 1416>>,
    <<4256, 4293>>, <<4295, 4295>>, <<4301, 4301>>, <<4304, 4346>>,
    <<4349, 4351>>, <<5024, 5109>>, <<5112, 5117>>, <<7296, 7304>>,
    <<7312, 7354>>, <<7357, 7359>>, <<7424, 7467>>, <<7531, 7543>>,
    <<7545, 7578>>, <<7680, 7957>>, <<7960, 7965>>, <<7968, 8005>>,
    <<8008, 8013>>, <<8016, 8023>>, <<8025, 8025>>, <<8027, 8027>>,
    <<8029, 8029>>, <<8031, 8061>>, <<8064, 8116>>, <<8118, 8124>>,
    <<8126, 8126>>, <<8130, 8132>>, <<8134, 8140>>, <<8144, 8147>>,
    <<8150, 8155>>, <<8160, 8172>>, <<8178, 8180>>, <<8182, 8188>>,
    <<8450, 8450>>, <<8455, 8455>>, <<8458, 8467>>, <<8469, 8469>>,
    <<8473, 8477>>, <<8484, 8484>>, <<8486, 8486>>, <<8488, 8488>>,
    <<8490, 8493>>, <<8495, 8500>>, <<8505, 8505>>, <<8508, 8511>>,
    <<8517, 8521>>, <<8526, 8526>>, <<8544, 8575>>, <<8579, 8580>>,
    <<9398, 9449>>, <<11264, 11387>>, <<11390, 11492>>, <<11499, 11502>>,
    <<11506, 11507>>, <<11520, 11557>>, <<11559, 11559>>, <<11565, 11565>>,
    <<42560, 42605>>, <<42624, 42651>>, <<42786, 42863>>, <<42865, 42887>>,
    <<42891, 42894>>, <<42896, 42954>>, <<42960, 42961>>, <<42963, 42963>>,
    <<42965, 42969>>, <<42997, 42998>>, <<43002, 43002>>, <<43824, 43866>>,
    <<43872, 43880>>, <<43888, 43967>>, <<64256, 64262>>, <<64275, 64279>>,
    <<65313, 65338>>, <<65345, 65370>>, <<66560, 66639>>, <<66736, 66771>>,
    <<66776, 66811>>, <<66928, 66938>>, <<66940, 66954>>, <<66956, 66962>>,
    <<66964, 66965>>, <<66967, 66977>>, <<66979, 66993>>, <<66995, 67001>>,
    <<67003, 67004>>, <<68736, 68786>>, <<68800, 68850>>, <<71840, 71903>>,
    <<93760, 93823>>, <<119808, 119892>>, <<119894, 119964>>,
    <<119966, 119967>>, <<119970, 119970>>, <<119973, 119974>>,
    <<119977, 119980>>, <<119982, 119993>>, <<119995, 119995>>,
    <<119997, 120003>>, <<120005, 120069>>, <<120071, 120074>>,
    <<120077, 120084>>, <<120086, 120092>>, <<120094, 120121>>,
    <<120123, 120126>>, <<120128, 120132>>, <<120134, 120134>>,
    <<120138, 120144>>, <<120146, 120485>>, <<120488, 120512>>,
    <<120514, 120538>>, <<120540, 120570>>, <<120572, 120596>>,
    <<120598, 120628>>, <<120630, 120654>>, <<120656, 120686>>,
    <<120688, 120712>>, <<120714, 120744>>, <<120746, 120770>>,
    <<120772, 120779>>, <<122624, 122633>>, <<122635, 122654>>,
    <<125184, 125251>>, <<127280, 127305>>, <<127312, 127337>>,
    <<127344, 127369>> }

\* The case-ignorable characters, as ranges <<first, last>>.
CaseIgnorableRanges ==
  { <<39, 39>>, <<46, 46>>, <<58, 58>>, <<94, 94>>, <<96, 96>>, <<168, 168>>,
    <<173, 173>>, <<175, 175>>, <<180, 180>>, <<183, 184>>, <<688, 879>>,
    <<884, 885>>, <<890, 890>>, <<900, 901>>, <<903, 903>>, <<1155, 1161>>,
    <<1369, 1369>>, <<1375, 1375>>, <<1425, 1469>>, <<1471, 1471>>,
    <<1473, 1474>>, <<1476, 1477>>, <<1479, 1479>>, <<1524, 1524>>,
    <<1536, 1541>>, <<1552, 1562>>, <<1564, 1564>>, <<1600, 1600>>,
    <<1611, 1631>>, <<1648, 1648>>, <<1750, 1757>>, <<1759, 1768>>,
    <<1770, 1773>>, <<1807, 1807>>, <<1809, 1809>>, <<1840, 1866>>,
    <<1958, 1968>>, <<2027, 2037>>, <<2042, 2042>>, <<2045, 2045>>,
    <<2070, 2093>>, <<2137, 2139>>, <<2184, 2184>>, <<2192, 2193>>,
    <<2200, 2207>>, <<2249, 2306>>, <<2362, 2362>>, <<2364, 2364>>,
    <<2369, 2376>>, <<2381, 2381>>, <<2385, 2391>>, <<2402, 2403>>,
    <<2417, 2417>>, <<2433, 2433>>, <<2492, 2492>>, <<2497, 2500>>,
    <<2509, 2509>>, <<2530, 2531>>, <<2558, 2558>>, <<2561, 2562>>,
    <<2620, 2620>>, <<2625, 2626>>, <<2631, 2632>>, <<2635, 2637>>,
    <<2641, 2641>>, <<2672, 2673>>, <<2677, 2677>>, <<2689, 2690>>,
    <<2748, 2748>>, <<2753, 2757>>, <<2759, 2760>>, <<2765, 2765>>,
    <<2786, 2787>>, <<2810, 2815>>, <<2817, 2817>>, <<2876, 2876>>,
    <<2879, 2879>>, <<2881, 2884>>, <<2893, 2893>>, <<2901, 2902>>,
    <<2914, 2915>>, <<2946, 2946>>, <<3008, 3008>>, <<3021, 3021>>,
    <<3072, 3072>>, <<3076, 3076>>, <<3132, 3132>>, <<3134, 3136>>,
    <<3142, 3144>>, <<3146, 3149>>, <<3157, 3158>>, <<3170, 3171>>,
    <<3201, 3201>>, <<3260, 3260>>, <<3263, 3263>>, <<3270, 3270>>,
    <<3276, 3277>>, <<3298, 3299>>, <<3328, 3329>>, <<3387, 3388>>,
    <<3393, 3396>>, <<3405, 3405>>, <<3426, 3427>>, <<3457, 3457>>,
    <<3530, 3530>>, <<3538, 3540>>, <<3542, 3542>>, <<3633, 3633>>,
    <<3636, 3642>>, <<3654, 3662>>, <<3761, 3761>>, <<3764, 3772>>,
    <<3782, 3782>>, <<3784, 3789>>, <<3864, 3865>>, <<3893, 3893>>,
    <<3895, 3895>>, <<3897, 3897>>, <<3953, 3966>>, <<3968, 3972>>,
    <<3974, 3975>>, <<3981, 3991>>, <<3993, 4028>>, <<4038, 4038>>,
    <<4141, 4144>>, <<4146, 4151>>, <<4153, 4154>>, <<4157, 4158>>,
    <<4184, 4185>>, <<4190, 4192>>, <<4209, 4212>>, <<4226, 4226>>,
    <<4229, 4230>>, <<4237, 4237>>, <<4253, 4253>>, <<4348, 4348>>,
    <<4957, 4959>>, <<5906, 5908>>, <<5938, 5939>>, <<5970, 5971>>,
    <<6002, 6003>>, <<6068, 6069>>, <<6071, 6077>>, <<6086, 6086>>,
    <<6089, 6099>>, <<6103, 6103>>, <<6109, 6109>>, <<6155, 6159>>,
    <<6211, 6211>>, <<6277, 6278>>, <<6313, 6313>>, <<6432, 6434>>,
    <<6439, 6440>>, <<6450, 6450>>, <<6457, 6459>>, <<6679, 6680>>,
    <<6683, 6683>>, <<6742, 6742>>, <<6744, 6750>>, <<6752, 6752>>,
    <<6754, 6754>>, <<6757, 6764>>, <<6771, 6780>>, <<6783, 6783>>,
    <<6823, 6823>>, <<6832, 6862>>, <<6912, 6915>>, <<6964, 6964>>,
    <<6966, 6970>>, <<6972, 6972>>, <<6978, 6978>>, <<7019, 7027>>,
    <<7040, 7041>>, <<7074, 7077>>, <<7080, 7081>>, <<7083, 7085>>,
    <<7142, 7142>>, <<7144, 7145>>, <<7149, 7149>>, <<7151, 7153>>,
    <<7212, 7219>>, <<7222, 7223>>, <<7288, 7293>>, <<7376, 7378>>,
    <<7380, 7392>>, <<7394, 7400>>, <<7405, 7405>>, <<7412, 7412>>,
    <<7416, 7417>>, <<7468, 7530>>, <<7544, 7544>>, <<7579, 7679>>,
    <<8125, 8125>>, <<8127, 8129>>, <<8141, 8143>>, <<8157, 8159>>,
    <<8173, 8175>>, <<8189, 8190>>, <<8203, 8207>>, <<8216, 8217>>,
    <<8228, 8228>>, <<8231, 8231>>, <<8234, 8238>>, <<8288, 8292>>,
    <<8294, 8303>>, <<8305, 8305>>, <<8319, 8319>>, <<8336, 8348>>,
    <<8400, 8432>>, <<11388, 11389>>, <<11503, 11505>>, <<11631, 11631>>,
    <<11647, 11647>>, <<11744, 11775>>, <<11823, 11823>>, <<12293, 12293>>,
    <<12330, 12333>>, <<12337, 12341>>, <<12347, 12347>>, <<12441, 12446>>,
    <<12540, 12542>>, <<40981, 40981>>, <<42232, 42237>>, <<42508, 42508>>,
    <<42607, 42610>>, <<42612, 42621>>, <<42623, 42623>>, <<42652, 42655>>,
    <<42736, 42737>>, <<42752, 42785>>, <<42864, 42864>>, <<42888, 42890>>,
    <<42994, 42996>>, <<43000, 43001>>, <<43010, 43010>>, <<43014, 43014>>,
    <<43019, 43019>>, <<43045, 43046>>, <<43052, 43052>>, <<43204, 43205>>,
    <<43232, 43249>>, <<43263, 43263>>, <<43302, 43309>>, <<43335, 43345>>,
    <<43392, 43394>>, <<43443, 43443>>, <<43446, 43449>>, <<43452, 43453>>,
    <<43471, 43471>>, <<43493, 43494>>, <<43561, 43566>>, <<43569, 43570>>,
    <<43573, 43574>>, <<43587, 43587>>, <<43596, 43596>>, <<43632, 43632>>,
    <<43644, 43644>>, <<43696, 43696>>, <<43698, 43700>>, <<43703, 43704>>,
    <<43710, 43711>>, <<43713, 43713>>, <<43741, 43741>>, <<43756, 43757>>,
    <<43763, 43764>>, <<43766, 43766>>, <<43867, 43871>>, <<43881, 43883>>,
    <<44005, 44005>>, <<44008, 44008>>, <<44013, 44013>>, <<64286, 64286>>,
    <<64434, 64450>>, <<65024, 65039>>, <<65043, 65043>>, <<65056, 65071>>,
    <<65106, 65106>>, <<65109, 65109>>, <<65279, 65279>>, <<65287, 65287>>,
    <<65294, 65294>>, <<65306, 65306>>, <<65342, 65342>>, <<65344, 65344>>,
    <<65392, 65392>>, <<65438, 65439>>, <<65507, 65507>>, <<65529, 65531>>,
    <<66045, 66045>>, <<66272, 66272>>, <<66422, 66426>>, <<67456, 67461>>,
    <<67463, 67504>>, <<67506, 67514>>, <<68097, 68099>>, <<68101, 68102>>,
    <<68108, 68111>>, <<68152, 68154>>, <<68159, 68159>>, <<68325, 68326>>,
    <<68900, 68903>>, <<69291, 69292>>, <<69446, 69456>>, <<69506, 69509>>,
    <<69633, 69633>>, <<69688, 69702>>, <<69744, 69744>>, <<69747, 69748>>,
    <<69759, 69761>>, <<69811, 69814>>, <<69817, 69818>>, <<69821, 69821>>,
    <<69826, 69826>>, <<69837, 69837>>, <<69888, 69890>>, <<69927, 69931>>,
    <<69933, 69940>>, <<70003, 70003>>, <<70016, 70017>>, <<70070, 70078>>,
    <<70089, 70092>>, <<70095, 70095>>, <<70191, 70193>>, <<70196, 70196>>,
    <<70198, 70199>>, <<70206, 70206>>, <<70367, 70367>>, <<70371, 70378>>,
    <<70400, 70401>>, <<70459, 70460>>, <<70464, 70464>>, <<70502, 70508>>,
    <<70512, 70516>>, <<70712, 70719>>, <<70722, 70724>>, <<70726, 70726>>,
    <<70750, 70750>>, <<70835, 70840>>, <<70842, 70842>>, <<70847, 70848>>,
    <<70850, 70851>>, <<71090, 71093>>, <<71100, 71101>>, <<71103, 71104>>,
    <<71132, 71133>>, <<71219, 71226>>, <<71229, 71229>>, <<71231, 71232>>,
    <<71339, 71339>>, <<71341, 71341>>, <<71344, 71349>>, <<71351, 71351>>,
    <<71453, 71455>>, <<71458, 71461>>, <<71463, 71467>>, <<71727, 71735>>,
    <<71737, 71738>>, <<71995, 71996>>, <<71998, 71998>>, <<72003, 72003>>,
    <<72148, 72151>>, <<72154, 72155>>, <<72160, 72160>>, <<72193, 72202>>,
    <<72243, 72248>>, <<72251, 72254>>, <<72263, 72263>>, <<72273, 72278>>,
    <<72281, 72283>>, <<72330, 72342>>, <<72344, 72345>>, <<72752, 72758>>,
    <<72760, 72765>>, <<72767, 72767>>, <<72850, 72871>>, <<72874, 72880>>,
    <<72882, 72883>>, <<72885, 72886>>, <<73009, 73014>>, <<73018, 73018>>,
    <<73020, 73021>>, <<73023, 73029>>, <<73031, 73031>>, <<73104, 73105>>,
    <<73109, 73109>>, <<73111, 73111>>, <<73459, 73460>>, <<78896, 78904>>,
    <<92912, 92916>>, <<92976, 92982>>, <<92992, 92995>>, <<94031, 94031>>,
    <<94095, 94111>>, <<94176, 94177>>, <<94179, 94180>>, <<110576, 110579>>,
    <<110581, 110587>>, <<110589, 110590>>, <<113821, 113822>>,
    <<113824, 113827>>, <<118528, 118573>>, <<118576, 118598>>,
    <<119143, 119145>>, <<119155, 119170>>, <<119173, 119179>>,
    <<119210, 119213>>, <<119362, 119364>>, <<121344, 121398>>,
    <<121403, 121452>>, <<121461, 121461>>, <<121476, 121476>>,
    <<121499, 121503>>, <<121505, 121519>>, <<122880, 122886>>,
    <<122888, 122904>>, <<122907, 122913>>, <<122915, 122916>>,
    <<122918, 122922>>, <<123184, 123197>>, <<123566, 123566>>,
    <<123628, 123631>>, <<125136, 125142>>, <<125252, 125259>>,
    <<127995, 127999>>, <<917505, 917505>>, <<917536, 917631>>,
    <<917760, 917999>> }

InRanges(c, ranges) == \E r \in ranges : r[1] <= c /\ c <= r[2]

InRun(c, r) == r[1] <= c /\ c <= r[2] /\ (c - r[1]) % r[3] = 0

\* Whether the capital sigma s[i] ends a word: the nearest character before
\* it that is not case-ignorable is cased, and the nearest one after it, if
\* any, is not.
FinalSigma(s, i) ==
  LET before == { j \in 1..(i - 1) : ~InRanges(s[j], CaseIgnorableRanges) }
      after  == { j \in (i + 1)..Len(s) : ~InRanges(s[j], CaseIgnorableRanges) }
  IN  /\ before /= {}
      /\ InRanges(s[CHOOSE j \in before : \A k \in before : k <= j], CasedRanges)
      /\ after /= {} =>
           ~InRanges(s[CHOOSE j \in after : \A k \in after : j <= k], CasedRanges)

\* The first character of the lower case of s[i].
LowerChar(s, i) ==
  LET c == s[i]
  IN  IF c < 128 THEN (IF c >= 65 /\ c <= 90 THEN c + 32 ELSE c)
      ELSE IF c = 304 THEN 105
      ELSE IF c = 931 THEN (IF FinalSigma(s, i) THEN 962 ELSE 963)
      ELSE IF \E r \in LowerRuns : InRun(c, r)
           THEN c + (CHOOSE r \in LowerRuns : InRun(c, r))[4]
      ELSE c

\* s.lower(): every cased character in lower case.  The only character whose
\* lower case is more than one character is U+0130, which becomes "i" and
\* U+0307.
lower(s) ==
  LET dotted == { i \in 1..Len(s) : s[i] = 304 }
      at(i)  == i + Cardinality({ p \in dotted : p < i })
  IN  IF dotted = {} THEN [i \in 1..Len(s) |-> LowerChar(s, i)]
      ELSE [k \in 1..(Len(s) + Cardinality(dotted)) |->
              IF \E i \in 1..Len(s) : at(i) = k
              THEN LowerChar(s, CHOOSE i \in 1..Len(s) : at(i) = k)
              ELSE 775]

\* s.startswith(prefix)
startswith(s, prefix) == Len(prefix) <= Len(s) /\ SubSeq(s, 1, Len(prefix)) = prefix

\* The index after the word that starts at s[i].
WordEnd(s, i) == RunEnd(s, i, {c \in Nat : ~IsSpace(c)})

RECURSIVE SplitFrom(_, _)
SplitFrom(s, i) ==
  IF i > Len(s) THEN <<>>
  ELSE IF IsSpace(s[i]) THEN SplitFrom(s, RunEnd(s, i, {c \in Nat : IsSpace(c)}))
  ELSE <<SubSeq(s, i, WordEnd(s, i) - 1)>> \o SplitFrom(s, WordEnd(s, i))

\* s.split(): the words between runs of whitespace
split(s) == SplitFrom(s, 1)

\* The digit zero of every script: the ten decimal digits of a script are
\* consecutive code points.
DecimalZeros ==
  { 48, 1632, 1776, 1984, 2406, 2534, 2662, 2790, 2918, 3046, 3174, 3302, 3430,
    3558, 3664, 3792, 3872, 4160, 4240, 6112, 6160, 6470, 6608, 6784, 6800,
    6992, 7088, 7232, 7248, 42528, 43216, 43264, 43472, 43504, 43600, 44016,
    65296, 66720, 68912, 69734, 69872, 69942, 70096, 70384, 70736, 70864, 71248,
    71360, 71472, 71904, 72016, 72784, 73040, 73120, 92768, 92864, 93008,
    120782, 120792, 120802, 120812, 120822, 123200, 123632, 125264, 130032 }

\* The value of a decimal digit of any script, -1 for any other character.
DecimalValue(c) ==
  IF \E z \in DecimalZeros : z <= c /\ c <= z + 9
  THEN c - (CHOOSE z \in DecimalZeros : z <= c /\ c <= z + 9)
  ELSE -1

\* int(tok): white space around the number is dropped; the number is an
\* optional sign and decimal digits of any script, with single underscores
\* allowed between digits; ok = FALSE stands for ValueError.
int(tok) ==
  LET t      == strip(tok)
      signed == t /= <<>> /\ t[1] \in {43, 45}
      body   == SubSeq(t, IF signed THEN 2 ELSE 1, Len(t))
      digits == SelectSeq(body, LAMBDA c : c /= 95)
      ascii  == [k \in 1..Len(digits) |-> 48 + DecimalValue(digits[k])]
      n      == DigitsValue(ascii, 1, Len(ascii) + 1, 0)
  IN  IF /\ body /= <<>>
         /\ \A k \in 1..Len(body) :
              \/ DecimalValue(body[k]) >= 0
              \/ /\ body[k] = 95 /\ k > 1 /\ k < Len(body)
                 /\ DecimalValue(body[k - 1]) >= 0 /\ DecimalValue(body[k + 1]) >= 0
      THEN [ok |-> TRUE, val |-> IF signed /\ t[1] = 45 THEN 0 - n ELSE n]
      ELSE [ok |-> FALSE, val |-> 0]

\* --------------------------------------------------------------------------
\* Protocol endpoints
\* --------------------------------------------------------------------------

SERVICE_UUID == "6E400001-B5A3-F393-E0A9-E50E24DCCA9E"

COMMAND_CHAR_UUID == "6E400002-B5A3-F393-E0A9-E50E24DCCA9E"

STATE_CHAR_UUID == "6E400003-B5A3-F393-E0A9-E50E24DCCA9E"

DEBUG_CHAR_UUID == "6E400004-B5A3-F393-E0A9-E50E24DCCA9E"

INFO_CHAR_UUID == "6E400005-B5A3-F393-E0A9-E50E24DCCA9E"

\* The characteristics the client asks notifications of.
NotifyChars == {STATE_CHAR_UUID, DEBUG_CHAR_UUID}

\* --------------------------------------------------------------------------
\* notification_handler(char_uuid).handler
\* --------------------------------------------------------------------------

\* The symbol printed for each log level.
level_symbols ==
  [ERROR |-> "cross", WARNING |-> "warning", INFO |-> "info",
   DEBUG |-> "wrench", VERBOSE |-> "memo"]

\* level_symbols.get(level, "memo") for a hashable level
SymbolOf(level) ==
  IF level.t = "str" /\ \E n \in DOMAIN level_symbols : S(n) = level.v
  THEN level_symbols[CHOOSE n \in DOMAIN level_symbols : S(n) = level.v]
  ELSE "memo"

\* The result of a block of statements: the lines it printed and the exception
\* it raised ("none" if it ran to its end).
Ran(lines) == [out |-> lines, exc |-> "none"]

Raised(lines, e) == [out |-> lines, exc |-> e]

\* sys.stdout writes UTF-8, which the program's own messages need.  Its error
\* handler is set when the interpreter starts, from the locale: 'strict'
\* under a UTF-8 locale, 'surrogateescape' under the C or POSIX locale.
StdoutErrors == { "strict", "surrogateescape" }

\* Whether print(f"...{x}...") raises UnicodeEncodeError: a str is formatted as
\* it is; any other value by its repr, which escapes what cannot be printed.
\* sys.stdout encodes every character but the surrogates U+D800..U+DFFF, which
\* json.loads takes from an escape \uD800 that has no pair; 'surrogateescape'
\* writes U+DC80..U+DCFF as the bytes 80..FF.
Unprintable(errors, x) ==
  /\ x.t = "str"
  /\ \E k \in 1..Len(x.v) :
       /\ x.v[k] >= 55296 /\ x.v[k] <= 57343
       /\ errors = "surrogateescape" => (x.v[k] < 56448 \/ x.v[k] > 56575)

\* The state update lines after the header: each print either raises (a
\* value cannot be encoded) or adds its line; header is what was printed so far.
StateLines(errors, header, track, artist, is_playing, volume_percent) ==
  LET l1 == Append(header, [line |-> "track - artist", track |-> track, artist |-> artist])
      l2 == Append(l1, [line |-> "Playing:", is_playing |-> is_playing])
      l3 == Append(l2, [line |-> "Volume:", volume_percent |-> volume_percent])
  IN  IF Unprintable(errors, track) \/ Unprintable(errors, artist) THEN Raised(header, "UnicodeEncodeError")
      ELSE IF Unprintable(errors, is_playing) THEN Raised(l1, "UnicodeEncodeError")
      ELSE IF Unprintable(errors, volume_percent) THEN Raised(l2, "UnicodeEncodeError")
      ELSE Ran(l3)

\* A faulty StateBranch: message.get without the defaults.
StateBranch_NoDefaults(errors, message) ==
  LET header == [line |-> "State Update:"]
  IN  IF message.t /= "obj" THEN Raised(<<header>>, "AttributeError")
      ELSE LET type == DictGet(message.v, S("type"), JNull)
           IN  IF type.t = "str" /\ type.v = S("stateUpdate")
               THEN StateLines(errors, <<header>>,
                               DictGet(message.v, S("track"), JNull),
                               DictGet(message.v, S("artist"), JNull),
                               DictGet(message.v, S("is_playing"), JNull),
                               DictGet(message.v, S("volume_percent"), JNull))
               ELSE Ran(<<header, [line |-> "document", doc |-> message]>>)

\* The state branch of the handler, on the parsed message.
StateBranch(errors, message) ==
  LET header == [line |-> "State Update:"]
  IN  IF message.t /= "obj" THEN Raised(<<header>>, "AttributeError")
      ELSE LET type == DictGet(message.v, S("type"), JNull)
           IN  IF type.t = "str" /\ type.v = S("stateUpdate")
               THEN StateLines(errors, <<header>>,
                               DictGet(message.v, S("track"), JStr(S("Unknown"))),
                               DictGet(message.v, S("artist"), JStr(S("Unknown"))),
                               DictGet(message.v, S("is_playing"), JBool(FALSE)),
                               DictGet(message.v, S("volume_percent"), JInt(0)))
               ELSE Ran(<<header, [line |-> "document", doc |-> message]>>)

\* The debug branch of the handler, on the parsed message.
DebugBranch(errors, message) ==
  IF message.t /= "obj" THEN Raised(<<>>, "AttributeError")
  ELSE LET level    == DictGet(message.v, S("level"), JStr(S("INFO")))
           log_type == DictGet(message.v, S("type"), JStr(S("LOG")))
           msg      == DictGet(message.v, S("message"), JStr(<<>>))
           log      == [line |-> "log", symbol |-> SymbolOf(level),
                        log_type |-> log_type, msg |-> msg]
       IN  IF level.t \in {"arr", "obj"} THEN Raised(<<>>, "TypeError")
           ELSE IF Unprintable(errors, log_type) \/ Unprintable(errors, msg)
                THEN Raised(<<>>, "UnicodeEncodeError")
           ELSE IF Truthy(DictGet(message.v, S("data"), JNull))
                THEN Ran(<<log, [line |-> "Data:",
                                 data |-> DictGet(message.v, S("data"), JNull)]>>)
                ELSE Ran(<<log>>)

\* The try block of the handler, from the parsed message on.
HandlerParsed(errors, char_uuid, message) ==
  IF ~message.ok THEN Raised(<<>>, "JSONDecodeError")
  ELSE IF char_uuid = STATE_CHAR_UUID THEN StateBranch(errors, message.val)
  ELSE IF char_uuid = DEBUG_CHAR_UUID THEN DebugBranch(errors, message.val)
  ELSE Ran(<<>>)

\* The try block of the handler, from the decoded text on.
HandlerDecoded(errors, char_uuid, text) ==
  IF ~text.ok THEN Raised(<<>>, "UnicodeDecodeError")
  ELSE HandlerParsed(errors, char_uuid, json_loads(text.text))

\* The try block of the handler: json.loads(data.decode('utf-8')), then the
\* branch of the characteristic.
HandlerTry(errors, char_uuid, data) ==
  HandlerDecoded(errors, char_uuid, decode_utf8(data))

\* A faulty HandlerExcept: only json.JSONDecodeError is caught.
HandlerExcept_JsonOnly(data, r) ==
  IF r.exc = "JSONDecodeError"
  THEN Ran(Append(r.out, [line |-> "Raw data:", hex |-> hex(data)]))
  ELSE r

\* The except clauses of the handler, given what the try block printed and
\* raised: json.JSONDecodeError prints the raw data, any other Exception is
\* reported.
HandlerExcept(data, r) ==
  IF r.exc = "none" THEN r
  ELSE IF r.exc = "JSONDecodeError"
       THEN Ran(Append(r.out, [line |-> "Raw data:", hex |-> hex(data)]))
  ELSE Ran(Append(r.out, [line |-> "Error handling notification:", exc |-> r.exc]))

\* The handler made for char_uuid, called with a notification's data where
\* sys.stdout.errors is errors: the lines it prints, and the exception that
\* leaves it ("none": the handler returns).
handler(errors, char_uuid, data) == HandlerExcept(data, HandlerTry(errors, char_uuid, data))

\* --------------------------------------------------------------------------
\* read_device_info
\* --------------------------------------------------------------------------

InfoFailed(e) == <<[line |-> "Failed to read device info:", exc |-> e]>>

\* read_device_info from the parsed document on.
InfoParsed(info) ==
  IF ~info.ok THEN InfoFailed("JSONDecodeError")
  ELSE <<[line |-> "Device Capabilities:"], [line |-> "document", doc |-> info.val]>>

\* A faulty InfoDecoded: bytes that are no UTF-8 text are shown raw.
InfoDecoded_RawFallback(text) ==
  IF ~text.ok THEN <<[line |-> "Raw data:"]>> ELSE InfoParsed(json_loads(text.text))

\* read_device_info from the decoded text on.
InfoDecoded(text) ==
  IF ~text.ok THEN InfoFailed("UnicodeDecodeError") ELSE InfoParsed(json_loads(text.text))

\* read_device_info, given the outcome of read_gatt_char (the value, or an
\* exception): the lines it prints.
read_device_info(read) ==
  IF ~read.ok THEN InfoFailed("BleakError") ELSE InfoDecoded(decode_utf8(read.data))

\* --------------------------------------------------------------------------
\* interactive_mode: one line of operator input
\* --------------------------------------------------------------------------

\* {"command": name}
Command0(name) == JObj(<<[k |-> S("command"), v |-> JStr(S(name))]>>)

\* A faulty Command1: the argument goes under the key "value".
Command1_ValueKey(name, key, n) ==
  JObj(<<[k |-> S("command"), v |-> JStr(S(name))], [k |-> S("value"), v |-> JInt(n)]>>)

\* {"command": name, key: n}
Command1(name, key, n) ==
  JObj(<<[k |-> S("command"), v |-> JStr(S(name))], [k |-> S(key), v |-> JInt(n)]>>)

\* What the loop body does with the text input() returned.
interactive_command(line) ==
  LET cmd == lower(strip(line))
      arg == int(split(cmd)[2])
  IN  IF cmd = S("quit") THEN [act |-> "quit"]
      ELSE IF cmd = S("play") THEN [act |-> "send", command |-> Command0("play")]
      ELSE IF cmd = S("pause") THEN [act |-> "send", command |-> Command0("pause")]
      ELSE IF cmd = S("next") THEN [act |-> "send", command |-> Command0("next")]
      ELSE IF cmd = S("prev") THEN [act |-> "send", command |-> Command0("previous")]
      ELSE IF startswith(cmd, S("seek "))
           THEN IF arg.ok
                THEN [act |-> "send", command |-> Command1("seek_to", "value_ms", arg.val)]
                ELSE [act |-> "error", exc |-> "ValueError"]
      ELSE IF startswith(cmd, S("vol "))
           THEN IF arg.ok
                THEN [act |-> "send",
                      command |-> Command1("set_volume", "value_percent", arg.val)]
                ELSE [act |-> "error", exc |-> "ValueError"]
      ELSE IF cmd = S("info") THEN [act |-> "info"]
      ELSE [act |-> "unknown"]

\* send_command: the bytes handed to write_gatt_char.
send_command(command) == encode_utf8(json_dumps(command))

\* --------------------------------------------------------------------------
\* Inputs: what the peer sends and what the operator types
\* --------------------------------------------------------------------------

\* The bytes of a document as the peer serialises it.
Wire(doc) == encode_utf8(json_dumps(doc))

Item(key, val) == [k |-> S(key), v |-> val]

\* The optional fields of a state update, with sample values.
StateFields ==
  <<Item("track", JStr(S("Song A"))), Item("artist", JStr(S("Band"))),
    Item("is_playing", JBool(TRUE)), Item("volume_percent", JInt(70))>>

RECURSIVE Pick(_, _, _)
\* The items of `items` whose index is in `keep`, in order.
Pick(items, keep, i) ==
  IF i > Len(items) THEN <<>>
  ELSE (IF i \in keep THEN <<items[i]>> ELSE <<>>) \o Pick(items, keep, i + 1)

\* {"type": "stateUpdate", ...} with the optional fields numbered in `keep`.
StateUpdateWire(keep) ==
  Wire(JObj(<<Item("type", JStr(S("stateUpdate")))>> \o Pick(StateFields, keep, 1)))

\* Values of `level` that are none of the protocol's levels.
UnknownLevels == { JStr(S("TRACE")), JStr(S("info")), JStr(<<>>), JInt(3), JNull }

\* {"level": level, "message": "boom"}
DebugWire(level) == Wire(JObj(<<Item("level", level), Item("message", JStr(S("boom")))>>))

\* Debug messages with the levels of the protocol and with other values.
DebugPayloads ==
  { DebugWire(l) : l \in { JStr(S("ERROR")), JStr(S("WARNING")), JStr(S("INFO")),
                           JStr(S("DEBUG")), JStr(S("VERBOSE")) } \cup UnknownLevels }
  \cup
  { Wire(JObj(<<Item("message", JStr(S("boom")))>>)),
    Wire(JObj(<<Item("level", JArr(<<JStr(S("ERROR"))>>)), Item("message", JStr(S("boom")))>>)),
    Wire(JObj(<<Item("level", JStr(S("TRACE"))), Item("type", JStr(S("BLE"))),
                Item("data", JObj(<<Item("mtu", JInt(23))>>))>>)),
    Wire(JObj(<<Item("type", JStr(S("BLE"))), Item("data", JInt(0))>>)) }

\* Well-formed documents that are no state update and no debug message.
OtherPayloads ==
  { Wire(JObj(<<Item("type", JStr(S("trackChange"))), Item("track", JStr(S("Song B")))>>)),
    Wire(JObj(<<Item("type", JInt(1))>>)),
    Wire(JObj(<<>>)),
    Wire(JArr(<<JInt(1)>>)),
    Wire(JInt(5)),
    Wire(JStr(S("stateUpdate"))),
    Wire(JNull),
    S(" {\"type\" : \"stateUpdate\" ,\"track\":null, \"track\":\"Song C\"} "),
    S("1.5"), S("NaN"), S("[-Infinity, 1e3, -0.0]"),
    S("{\"type\":\"stateUpdate\",\"volume_percent\":70.5}"),
    S("{\"level\":\"INFO\",\"message\":2.50e-7,\"data\":0.0}"),
    S("{\"type\":\"stateUpdate\",\"volume_percent\":0.10000000000000001}"),
    S("{\"message\":9007199254740993.0,\"data\":[3e-324,1.7976931348623158079e308]}") }

\* Documents with a string that holds a lone surrogate, which json.loads
\* takes from its escape; whether print can encode it depends on the
\* surrogate and on sys.stdout.errors.
SurrogatePayloads ==
  { S("{\"type\":\"stateUpdate\",\"track\":\"\\ud800\"}"),
    S("{\"type\":\"stateUpdate\",\"track\":\"Song A\",\"volume_percent\":\"\\udfff\"}"),
    S("{\"type\":\"trackChange\",\"message\":\"\\ud83d\"}"),
    S("{\"type\":\"stateUpdate\",\"track\":[\"\\ud800\"],\"data\":\"\\ud800\"}"),
    S("{\"type\":\"stateUpdate\",\"track\":\"\\udcff\"}"),
    S("{\"type\":\"stateUpdate\",\"artist\":\"\\udc80\",\"is_playing\":\"\\udd00\"}"),
    S("{\"message\":\"a\\udc9fb\"}") }

\* The bytes DE AD BE EF.
DeadBeef == <<222, 173, 190, 239>>

\* Buffers that are no UTF-8 text, and UTF-8 text that is no JSON document.
MalformedPayloads ==
  { DeadBeef, <<255>>, <<123, 34, 195>>,
    <<>>, S("hello"), S("{\"type\":"), S("{\"type\":\"stateUpdate\",}"), <<195, 169>> }

\* The spec's example state update: {"type":"stateUpdate","track":"Song A","is_playing":true}
SongA == S("{\"type\":\"stateUpdate\",\"track\":\"Song A\",\"is_playing\":true}")

\* The notifications: among them the state updates with every subset of the
\* optional fields.
Payloads ==
  { StateUpdateWire(keep) : keep \in SUBSET (1..Len(StateFields)) }
  \cup DebugPayloads \cup OtherPayloads \cup SurrogatePayloads
  \cup MalformedPayloads \cup {SongA}

\* The notifications of the whole-session specification.
SessionPayloads == { SongA, DeadBeef }

\* A capability document of the device.
Capabilities == JObj(<<Item("version", JStr(S("2.0"))), Item("mtu", JInt(512))>>)

\* Values of the info characteristic that are no UTF-8 JSON text.
BadInfoPayloads == { DeadBeef, S("NocturneCompanion") }

\* What the info characteristic may hold.
InfoPayloads == { Wire(Capabilities) } \cup BadInfoPayloads

\* Arguments the operator gives to vol and seek.
VolArgs == { -100, -1, 0, 1, 50, 99, 100, 101, 150, 1000 }

SeekArgs == { -5000, -1, 0, 1, 5000, 100000 }

\* Lines the operator types at the command prompt.
CmdLines ==
  { S("vol ") \o IntToStr(n) : n \in VolArgs }
  \cup { S("seek ") \o IntToStr(n) : n \in SeekArgs }
  \cup { S("play"), S("pause"), S("next"), S("prev"), S("  PLAY "), S("Prev"),
         S("VOL  +7 "), S("seek 5000 1"), S("seek -0"), S("vol 007"),
         S("Vol 25"), S("pause "), S("seek +30000"),
         S("seek abc"), S("vol 5x"), S("vol"), S("seek "), S("volume 5"), S("stop"), <<>>,
         S("seek 1_000"), S("seek 1.5"), S("vol 1__0"), S("vol ") \o <<1635>>,
         S("seek -") \o <<65297, 65298>>, <<83, 69, 69, 8490, 32, 53>>,
         <<81, 85, 304, 84>> }

\* The operator's lines of the whole-session specification.
SessionLines ==
  { S("quit"), S("play"), S("pause"), S("info"), S("stop"), S("seek abc"), S("vol") }

\* Bounds of the model.
MaxNotify == 2

MaxCmds == 2

MaxDecode == 1

MaxLines == 1

ReadOutcomes ==
  { [ok |-> TRUE, data |-> d] : d \in InfoPayloads } \cup { [ok |-> FALSE, data |-> <<>>] }

\* The functions above tabulated over the inputs of the model, so that each
\* value is computed once.
HandlerTable ==
  [e \in StdoutErrors, c \in NotifyChars, d \in Payloads |-> handler(e, c, d)]

InfoTable == [r \in ReadOutcomes |-> read_device_info(r)]

CommandTable == [l \in CmdLines \cup SessionLines |-> interactive_command(l)]

WriteTable ==
  [l \in { x \in CmdLines \cup SessionLines : CommandTable[x].act = "send" } |->
     send_command(CommandTable[l].command)]

\* --------------------------------------------------------------------------
\* The session: NocturneTestClient.run on the asyncio event loop
\* --------------------------------------------------------------------------

VARIABLES
  pc,         \* where the main task `run` stands: the await it is suspended in
  link,       \* client.is_connected
  callbacks,  \* characteristic -> the handler start_notify registered, or "none"
  loopq,      \* notifications received whose callback the event loop has not run yet
  delivered,  \* characteristic -> the data of the notifications the transport delivered
  handled,    \* handler -> its calls so far: the data, the lines printed, what it raised
  ops,        \* the transport operations called so far, in the order of the calls
  last,       \* what the main task's last step took in and printed
  ncmds,      \* lines read by input() so far
  stdout_errors,  \* sys.stdout.errors, set when the interpreter starts
  must_cancel \* the main task was cancelled while it ran, inside input()

vars ==
  <<pc, link, callbacks, loopq, delivered, handled, ops, last, ncmds, stdout_errors,
    must_cancel>>

\* The main task is suspended in an await at these points, so the event loop
\* runs callbacks; in "input" it is inside the blocking call input().  A step
\* of the main task runs from one of these points to the next: it ends the
\* await and runs the code up to the next await, the call awaited included.
AwaitPoints ==
  { "find_device", "connect", "read_info", "sub_state", "sub_debug", "sleep1",
    "write", "info_cmd", "sleep01", "disconnect" }

Op(name, char, data) == [op |-> name, char |-> char, data |-> data]

Init ==
  /\ pc = "idle"
  /\ link = FALSE
  /\ callbacks = [c \in NotifyChars |-> "none"]
  /\ loopq = <<>>
  /\ delivered = [c \in NotifyChars |-> <<>>]
  /\ handled = [c \in NotifyChars |-> <<>>]
  /\ ops = <<>>
  /\ last = [step |-> "init"]
  /\ ncmds = 0
  /\ stdout_errors \in StdoutErrors
  /\ must_cancel = FALSE

\* main: client.run() is awaited; run calls connect, connect calls find_device,
\* which awaits BleakScanner.discover.
Run ==
  /\ pc = "idle"
  /\ pc' = "find_device"
  /\ last' = [step |-> "run"]
  /\ UNCHANGED <<link, callbacks, loopq, delivered, handled, ops, ncmds, stdout_errors,
                 must_cancel>>

\* run, the finally clause: client.is_connected is tested and, if it holds,
\* client.disconnect() is called and awaited.
Finally ==
  /\ pc' = IF link THEN "disconnect" ELSE "done"
  /\ ops' = IF link THEN Append(ops, Op("disconnect", "", <<>>)) ELSE ops

\* connect: the scan of find_device ends.  "found": a device is returned, the
\* client is made and client.connect() is called.  "none": no device matches,
\* connect returns False and run returns.  "raised": BleakScanner.discover,
\* the look at device.metadata or BleakClient() raises; no try block is around
\* them, so the exception leaves run.
FindDevice(result) ==
  /\ pc = "find_device"
  /\ pc' = IF result = "found" THEN "connect" ELSE "done"
  /\ ops' = IF result = "found" THEN Append(ops, Op("connect", "", <<>>)) ELSE ops
  /\ last' = [step |-> "find_device", result |-> result]
  /\ UNCHANGED <<link, callbacks, loopq, delivered, handled, ncmds, stdout_errors,
                 must_cancel>>

\* A faulty Connect: run goes on after a failed connect.
Connect_Proceeds(result) ==
  /\ pc = "connect"
  /\ link' = (result /= "failed")
  /\ ops' = Append(ops, Op("read", INFO_CHAR_UUID, <<>>))
  /\ pc' = "read_info"
  /\ last' = [step |-> "connect", result |-> result]
  /\ UNCHANGED <<callbacks, loopq, delivered, handled, ncmds, stdout_errors, must_cancel>>

\* connect: client.connect() ends.  "ok": it returned and the services were
\* listed; connect returns True, run enters its try block and
\* read_device_info calls read_gatt_char.  "failed": client.connect() raised;
\* connect prints the failure and returns False, run returns.  "listing":
\* client.connect() returned and the listing of the services raised; the same
\* except clause returns False and run returns, outside its try block: the
\* link is up and no disconnect is called.
Connect(result) ==
  /\ pc = "connect"
  /\ link' = (result /= "failed")
  /\ ops' = IF result = "ok" THEN Append(ops, Op("read", INFO_CHAR_UUID, <<>>)) ELSE ops
  /\ pc' = IF result = "ok" THEN "read_info" ELSE "done"
  /\ last' = [step |-> "connect", result |-> result]
  /\ UNCHANGED <<callbacks, loopq, delivered, handled, ncmds, stdout_errors, must_cancel>>

\* A faulty subscribe_notifications: the debug handler is registered on the
\* command characteristic.
subscribe_notifications_OnCommand ==
  <<[char |-> STATE_CHAR_UUID, handler |-> STATE_CHAR_UUID],
    [char |-> COMMAND_CHAR_UUID, handler |-> DEBUG_CHAR_UUID]>>

\* A faulty subscribe_notifications: the state handler is registered twice.
subscribe_notifications_OneHandler ==
  <<[char |-> STATE_CHAR_UUID, handler |-> STATE_CHAR_UUID],
    [char |-> DEBUG_CHAR_UUID, handler |-> STATE_CHAR_UUID]>>

\* subscribe_notifications: the start_notify calls, in order: the
\* characteristic and the characteristic its handler is made for.
subscribe_notifications ==
  <<[char |-> STATE_CHAR_UUID, handler |-> STATE_CHAR_UUID],
    [char |-> DEBUG_CHAR_UUID, handler |-> DEBUG_CHAR_UUID]>>

\* A faulty ReadInfo: run goes on without subscribing.
ReadInfo_NoSubscribe(read) ==
  /\ pc \in {"read_info", "info_cmd"}
  /\ read.ok => (link /\ ~must_cancel)
  /\ last' = [step |-> "read_device_info", read |-> read, out |-> InfoTable[read]]
  /\ pc' = IF pc = "read_info" THEN "sleep1" ELSE "sleep01"
  /\ UNCHANGED <<link, callbacks, loopq, delivered, handled, ops, ncmds, stdout_errors,
                 must_cancel>>

\* read_device_info, at start-up and on the command `info`: read_gatt_char
\* ends with `read`, the characteristic's value or an exception, and the
\* outcome is printed.  At start-up subscribe_notifications then calls the
\* first start_notify; in the command loop asyncio.sleep(0.1) is next.  A task
\* marked for cancellation gets past a call only if the call ends without
\* suspending, which a transport call does only by raising.
ReadInfo(read) ==
  /\ pc \in {"read_info", "info_cmd"}
  /\ read.ok => (link /\ ~must_cancel)
  /\ last' = [step |-> "read_device_info", read |-> read, out |-> InfoTable[read]]
  /\ pc' = IF pc = "read_info" THEN "sub_state" ELSE "sleep01"
  /\ ops' = IF pc = "read_info"
            THEN Append(ops, Op("start_notify", subscribe_notifications[1].char, <<>>))
            ELSE ops
  /\ UNCHANGED <<link, callbacks, loopq, delivered, handled, ncmds, stdout_errors,
                 must_cancel>>

\* A faulty variant of Subscribe: each start_notify has a try block of its
\* own, so the debug subscription is attempted after a failed state one.
Subscribe_Continue(i, ok) ==
  LET sub == subscribe_notifications[i]
      more == i < Len(subscribe_notifications)
  IN  /\ pc = (IF i = 1 THEN "sub_state" ELSE "sub_debug")
      /\ ok => link
      /\ callbacks' = IF ok THEN [callbacks EXCEPT ![sub.char] = sub.handler] ELSE callbacks
      /\ pc' = IF more THEN "sub_debug" ELSE "sleep1"
      /\ ops' = IF more
                THEN Append(ops, Op("start_notify", subscribe_notifications[i + 1].char, <<>>))
                ELSE ops
      /\ last' = [step |-> "start_notify", char |-> sub.char, ok |-> ok]
      /\ UNCHANGED <<link, loopq, delivered, handled, ncmds, stdout_errors, must_cancel>>

\* subscribe_notifications: the i-th start_notify returns, and its handler is
\* registered, or raises.  After the first one returned the second is called;
\* a raise ends the method in its except clause, and run goes on to
\* asyncio.sleep(1).
Subscribe(i, ok) ==
  LET sub == subscribe_notifications[i]
      more == ok /\ i < Len(subscribe_notifications)
  IN  /\ pc = (IF i = 1 THEN "sub_state" ELSE "sub_debug")
      /\ ok => link
      /\ callbacks' = IF ok THEN [callbacks EXCEPT ![sub.char] = sub.handler] ELSE callbacks
      /\ pc' = IF more THEN "sub_debug" ELSE "sleep1"
      /\ ops' = IF more
                THEN Append(ops, Op("start_notify", subscribe_notifications[i + 1].char, <<>>))
                ELSE ops
      /\ last' = [step |-> "start_notify", char |-> sub.char, ok |-> ok]
      /\ UNCHANGED <<link, loopq, delivered, handled, ncmds, stdout_errors, must_cancel>>

\* run: asyncio.sleep(1) is over; interactive_mode starts and calls input().
Sleep1 ==
  /\ pc = "sleep1"
  /\ pc' = "input"
  /\ last' = [step |-> "sleep"]
  /\ UNCHANGED <<link, callbacks, loopq, delivered, handled, ops, ncmds, stdout_errors,
                 must_cancel>>

\* A faulty variant of Input: the loop has no `except Exception` clause, so the
\* ValueError of int() leaves interactive_mode and run goes to its finally.
Input_NoExcept(line) ==
  LET c == CommandTable[line]
  IN  /\ pc = "input"
      /\ ncmds' = ncmds + 1
      /\ last' = [step |-> "input", line |-> line, act |-> c.act]
      /\ IF c.act \in {"quit", "error"} THEN Finally
         ELSE /\ pc' = IF c.act = "send" THEN "write"
                       ELSE IF c.act = "info" THEN "info_cmd"
                       ELSE "sleep01"
              /\ ops' = IF c.act = "send"
                        THEN Append(ops, Op("write", COMMAND_CHAR_UUID, WriteTable[line]))
                        ELSE IF c.act = "info"
                        THEN Append(ops, Op("read", INFO_CHAR_UUID, <<>>))
                        ELSE ops
      /\ must_cancel' = (must_cancel /\ pc' /= "done")
      /\ UNCHANGED <<link, callbacks, loopq, delivered, handled, stdout_errors>>

\* interactive_mode: input() returns `line`; the loop body runs up to its
\* next await: send_command up to its write_gatt_char, read_device_info up
\* to its read_gatt_char, asyncio.sleep(0.1) after an unknown command, and
\* input() again after a ValueError.  On `quit` the loop is left and run
\* reaches its finally clause; if run returns there, with no disconnect to
\* await, a task marked for cancellation ends cancelled and the mark is
\* cleared.
Input(line) ==
  LET c == CommandTable[line]
  IN  /\ pc = "input"
      /\ ncmds' = ncmds + 1
      /\ last' = [step |-> "input", line |-> line, act |-> c.act]
      /\ IF c.act = "quit" THEN Finally
         ELSE /\ pc' = IF c.act = "send" THEN "write"
                       ELSE IF c.act = "info" THEN "info_cmd"
                       ELSE IF c.act = "unknown" THEN "sleep01"
                       ELSE "input"
              /\ ops' = IF c.act = "send"
                        THEN Append(ops, Op("write", COMMAND_CHAR_UUID, WriteTable[line]))
                        ELSE IF c.act = "info"
                        THEN Append(ops, Op("read", INFO_CHAR_UUID, <<>>))
                        ELSE ops
      /\ must_cancel' = (must_cancel /\ pc' /= "done")
      /\ UNCHANGED <<link, callbacks, loopq, delivered, handled, stdout_errors>>

\* Ctrl-C while the main task is inside input(), under asyncio.run of Python
\* 3.11 and later: the first SIGINT raises nothing, its handler cancels the
\* main task.  The task is running, so it is only marked: input() keeps
\* waiting, the line it returns is still taken, and the next await that
\* suspends ends with CancelledError.
Sigint ==
  /\ pc = "input"
  /\ ~must_cancel
  /\ must_cancel' = TRUE
  /\ UNCHANGED <<pc, link, callbacks, loopq, delivered, handled, ops, last, ncmds,
                 stdout_errors>>

\* interactive_mode: KeyboardInterrupt is raised in input(), the loop is left
\* and run reaches its finally clause.  Under asyncio.run of Python 3.11 and
\* later this is the second Ctrl-C at the prompt, and the main task is still
\* marked for cancellation; before 3.11 it is the first one.  If run returns
\* from the finally clause, the task ends cancelled and the mark is cleared.
Interrupt ==
  /\ pc = "input"
  /\ Finally
  /\ last' = [step |-> "KeyboardInterrupt"]
  /\ must_cancel' = (must_cancel /\ pc' /= "done")
  /\ UNCHANGED <<link, callbacks, loopq, delivered, handled, ncmds, stdout_errors>>

\* The await the main task is suspended in ends with CancelledError: the task
\* was marked for cancellation, or Ctrl-C comes while it is suspended (the
\* SIGINT handler of asyncio.run cancels it, or KeyboardInterrupt ends the
\* event loop and asyncio.run cancels it while shutting down).  CancelledError
\* is no Exception: it passes every except clause of the file.  From connect,
\* which run calls before its try block, it leaves run, and whether the
\* transport has the link up by then is the transport's matter; from the
\* awaits of the try block it reaches the finally clause, where the
\* disconnect is awaited like any call; from the disconnect it leaves run with
\* the link as it is.
Cancelled ==
  /\ pc \in AwaitPoints
  /\ must_cancel' = FALSE
  /\ last' = [step |-> "CancelledError", at |-> pc]
  /\ IF pc \in {"find_device", "connect", "disconnect"}
     THEN /\ pc' = "done"
          /\ ops' = ops
          /\ link' \in (IF pc = "connect" THEN BOOLEAN ELSE {link})
     ELSE /\ Finally
          /\ link' = link
  /\ UNCHANGED <<callbacks, loopq, delivered, handled, ncmds, stdout_errors>>

\* A faulty variant of WriteDone: a write that failed is attempted once more.
WriteDone_Retry(ok) ==
  /\ pc = "write"
  /\ ok => (link /\ ~must_cancel)
  /\ pc' = IF ok \/ last.step = "send_command" THEN "sleep01" ELSE "write"
  /\ ops' = IF ok \/ last.step = "send_command" THEN ops ELSE Append(ops, ops[Len(ops)])
  /\ last' = [step |-> "send_command", ok |-> ok]
  /\ UNCHANGED <<link, callbacks, loopq, delivered, handled, ncmds, stdout_errors,
                 must_cancel>>

\* send_command: write_gatt_char returns or raises; the failure is printed,
\* and interactive_mode goes on to asyncio.sleep(0.1).
WriteDone(ok) ==
  /\ pc = "write"
  /\ ok => (link /\ ~must_cancel)
  /\ pc' = "sleep01"
  /\ last' = [step |-> "send_command", ok |-> ok]
  /\ UNCHANGED <<link, callbacks, loopq, delivered, handled, ops, ncmds, stdout_errors,
                 must_cancel>>

\* interactive_mode: asyncio.sleep(0.1) is over and input() is called again.
\* A sleep always suspends, so a task marked for cancellation does not get
\* past it.
Sleep01 ==
  /\ pc = "sleep01"
  /\ ~must_cancel
  /\ pc' = "input"
  /\ last' = [step |-> "sleep"]
  /\ UNCHANGED <<link, callbacks, loopq, delivered, handled, ops, ncmds, stdout_errors,
                 must_cancel>>

\* run, the finally clause: client.disconnect() returns, the link is down and
\* `Disconnected` is printed; or it raises, and the exception leaves run with
\* the link as it is.
Disconnect(ok) ==
  /\ pc = "disconnect"
  /\ ok => ~must_cancel
  /\ pc' = "done"
  /\ link' = (link /\ ~ok)
  /\ last' = [step |-> "disconnect", ok |-> ok]
  /\ UNCHANGED <<callbacks, loopq, delivered, handled, ops, ncmds, stdout_errors,
                 must_cancel>>

\* The peer goes away: the transport loses the link.
LinkLost ==
  /\ link
  /\ pc /= "done"
  /\ link' = FALSE
  /\ UNCHANGED <<pc, callbacks, loopq, delivered, handled, ops, last, ncmds, stdout_errors,
                 must_cancel>>

\* The peer notifies characteristic char with data: the transport hands it to
\* the event loop, for the callback start_notify registered.
Notify(char, data) ==
  /\ link
  /\ pc /= "done"
  /\ callbacks[char] /= "none"
  /\ loopq' = Append(loopq, [handler |-> callbacks[char], data |-> data])
  /\ delivered' = [delivered EXCEPT ![char] = Append(@, data)]
  /\ UNCHANGED <<pc, link, callbacks, handled, ops, last, ncmds, stdout_errors, must_cancel>>

\* The record of one call of a handler.
Call(data, r) == [data |-> data, out |-> r.out, exc |-> r.exc]

\* The event loop runs the oldest pending callback while the main task is
\* suspended, and once run has ended: asyncio.run goes through the ready
\* callbacks again before it closes the loop.
RunCallback ==
  /\ loopq /= <<>>
  /\ pc \in AwaitPoints \cup {"done"}
  /\ handled' = [handled EXCEPT ![Head(loopq).handler] =
                   Append(@, Call(Head(loopq).data,
                                  HandlerTable[stdout_errors, Head(loopq).handler,
                                               Head(loopq).data]))]
  /\ loopq' = Tail(loopq)
  /\ UNCHANGED <<pc, link, callbacks, delivered, ops, last, ncmds, stdout_errors,
                 must_cancel>>

Next ==
  \/ Run
  \/ \E result \in {"found", "none", "raised"} : FindDevice(result)
  \/ \E result \in {"ok", "failed", "listing"} : Connect(result)
  \/ \E read \in ReadOutcomes : ReadInfo(read)
  \/ \E i \in 1..Len(subscribe_notifications), ok \in BOOLEAN : Subscribe(i, ok)
  \/ Sleep1
  \/ \E line \in SessionLines : ncmds < MaxCmds /\ Input(line)
  \/ Sigint
  \/ Interrupt
  \/ Cancelled
  \/ \E ok \in BOOLEAN : WriteDone(ok)
  \/ Sleep01
  \/ \E ok \in BOOLEAN : Disconnect(ok)
  \/ LinkLost
  \/ \E char \in NotifyChars, data \in SessionPayloads :
       Len(delivered[STATE_CHAR_UUID]) + Len(delivered[DEBUG_CHAR_UUID]) < MaxNotify
         /\ Notify(char, data)
  \/ RunCallback

Spec == Init /\ [][Next]_vars

\* The steps the program and its event loop take on their own: an await of the
\* main task ends (the transport answers or raises, a sleep is over, the
\* cancellation the task is marked for is delivered), and the event loop runs
\* a pending callback while the main task is suspended.
Progress ==
  \/ Run
  \/ \E result \in {"found", "none", "raised"} : FindDevice(result)
  \/ \E result \in {"ok", "failed", "listing"} : Connect(result)
  \/ \E read \in ReadOutcomes : ReadInfo(read)
  \/ \E i \in 1..Len(subscribe_notifications), ok \in BOOLEAN : Subscribe(i, ok)
  \/ Sleep1
  \/ \E ok \in BOOLEAN : WriteDone(ok)
  \/ Sleep01
  \/ \E ok \in BOOLEAN : Disconnect(ok)
  \/ must_cancel /\ Cancelled

\* The session with its scheduling: the main task goes on whenever it can,
\* and so does the event loop. Nothing is assumed of the operator (a line, an
\* interrupt) or of the peer (a notification, the loss of the link).
SpecLive == Spec /\ WF_vars(Progress) /\ WF_vars(RunCallback)

\* --------------------------------------------------------------------------
\* Specifications of the codec and of the command loop alone
\* --------------------------------------------------------------------------

\* The session once both subscriptions are made: run stands in asyncio.sleep(1).
InitSubscribed ==
  /\ pc = "sleep1"
  /\ link = TRUE
  /\ callbacks = [c \in NotifyChars |->
                    subscribe_notifications[IF c = STATE_CHAR_UUID THEN 1 ELSE 2].handler]
  /\ loopq = <<>>
  /\ delivered = [c \in NotifyChars |-> <<>>]
  /\ handled = [c \in NotifyChars |-> <<>>]
  /\ ops = <<Op("connect", "", <<>>), Op("read", INFO_CHAR_UUID, <<>>),
             Op("start_notify", STATE_CHAR_UUID, <<>>),
             Op("start_notify", DEBUG_CHAR_UUID, <<>>)>>
  /\ last = [step |-> "start_notify", char |-> DEBUG_CHAR_UUID, ok |-> TRUE]
  /\ ncmds = 0
  /\ stdout_errors \in StdoutErrors
  /\ must_cancel = FALSE

\* Any payload of the model arrives on either characteristic, and is handled.
NextDecode ==
  \/ \E char \in NotifyChars, data \in Payloads :
       Len(delivered[STATE_CHAR_UUID]) + Len(delivered[DEBUG_CHAR_UUID]) < MaxDecode
         /\ Notify(char, data)
  \/ RunCallback

\* The notification handlers on every payload of the model.
SpecDecode == InitSubscribed /\ [][NextDecode]_vars

\* The session at the first prompt of interactive_mode.
InitPrompt ==
  /\ pc = "input"
  /\ link = TRUE
  /\ callbacks = [c \in NotifyChars |->
                    subscribe_notifications[IF c = STATE_CHAR_UUID THEN 1 ELSE 2].handler]
  /\ loopq = <<>>
  /\ delivered = [c \in NotifyChars |-> <<>>]
  /\ handled = [c \in NotifyChars |-> <<>>]
  /\ ops = <<Op("connect", "", <<>>), Op("read", INFO_CHAR_UUID, <<>>),
             Op("start_notify", STATE_CHAR_UUID, <<>>),
             Op("start_notify", DEBUG_CHAR_UUID, <<>>)>>
  /\ last = [step |-> "sleep"]
  /\ ncmds = 0
  /\ stdout_errors \in StdoutErrors
  /\ must_cancel = FALSE

\* The operator types any line of the model; the command is written.
NextCmd ==
  \/ \E line \in CmdLines : ncmds < MaxLines /\ Input(line)
  \/ \E ok \in BOOLEAN : WriteDone(ok)
  \/ Sleep01

\* The command loop on every line of the model.
SpecCmd == InitPrompt /\ [][NextCmd]_vars

\* --------------------------------------------------------------------------
\* Properties
\* --------------------------------------------------------------------------

IsStr(x, lit) == x.t = "str" /\ x.v = S(lit)

\* The line the operator types for a command word and an integer argument.
ArgLine(word, n) == S(word) \o <<32>> \o IntToStr(n)

\* The bytes handed to the i-th transport operation, decoded as a generic
\* JSON structure.
WrittenDoc(i) == json_loads(decode_utf8(ops[i].data).text)

\* The value of the field `key` of the command written by the i-th operation,
\* if that command has the tag `name`.
WrittenValues(name, key) ==
  { DictGet(WrittenDoc(i).val.v, S(key), JNull) :
      i \in { j \in 1..Len(ops) :
                /\ ops[j].op = "write"
                /\ WrittenDoc(j).val.t = "obj"
                /\ IsStr(DictGet(WrittenDoc(j).val.v, S("command"), JNull), name) } }

\* C1: a `vol <n>` command with n outside [0,100] fails with an error and
\* issues no write; only values in [0,100] reach the transport write.
C1_VolumeRangeEnforced ==
  /\ \A n \in VolArgs :
       (last.step = "input" /\ last.line = ArgLine("vol", n) /\ n \notin 0..100)
         => (last.act = "error" /\ pc = "input")
  /\ \A x \in WrittenValues("set_volume", "value_percent") :
       x.t = "int" /\ x.v \in 0..100

\* C2: a `seek <n>` command with n < 0 fails with an error and issues no
\* write; only non-negative values reach the transport write.
C2_SeekNonNegativeEnforced ==
  /\ \A n \in SeekArgs :
       (last.step = "input" /\ last.line = ArgLine("seek", n) /\ n < 0)
         => (last.act = "error" /\ pc = "input")
  /\ \A x \in WrittenValues("seek_to", "value_ms") : x.t = "int" /\ x.v >= 0

\* The commands without argument: what the operator types, and the tag sent.
SimpleCommands ==
  { <<"play", "play">>, <<"pause", "pause">>, <<"next", "next">>, <<"prev", "previous">> }

\* Whether doc is an object with exactly the fields `command` = name and, if
\* key is not "", key = n.
IsCommand(doc, name, key, n) ==
  /\ doc.t = "obj"
  /\ IsStr(DictGet(doc.v, S("command"), JNull), name)
  /\ IF key = "" THEN Len(doc.v) = 1
     ELSE Len(doc.v) = 2 /\ DictGet(doc.v, S(key), JNull) = JInt(n)

\* Whether doc has exactly the fields of its tag.
HasFieldsOfTag(doc) ==
  /\ doc.t = "obj"
  /\ \/ \E c \in SimpleCommands : IsCommand(doc, c[2], "", 0)
     \/ /\ DictGet(doc.v, S("value_ms"), JNull).t = "int"
        /\ IsCommand(doc, "seek_to", "value_ms", DictGet(doc.v, S("value_ms"), JNull).v)
     \/ /\ DictGet(doc.v, S("value_percent"), JNull).t = "int"
        /\ IsCommand(doc, "set_volume", "value_percent",
                     DictGet(doc.v, S("value_percent"), JNull).v)

\* Whether doc is the command the line stands for.
IsCommandOf(line, doc) ==
  /\ HasFieldsOfTag(doc)
  /\ \A c \in SimpleCommands : line = S(c[1]) => IsCommand(doc, c[2], "", 0)
  /\ \A n \in SeekArgs : line = ArgLine("seek", n) => IsCommand(doc, "seek_to", "value_ms", n)
  /\ \A n \in VolArgs :
       line = ArgLine("vol", n) => IsCommand(doc, "set_volume", "value_percent", n)

\* C4: the bytes of every command written decode, as a generic JSON
\* structure, to exactly the fields of its tag: `command` alone for
\* play/pause/next/previous, `command` and `value_ms` for seek_to, `command`
\* and `value_percent` for set_volume, with the value the operator gave.
C4_CommandRoundTrip ==
  pc = "write" =>
    /\ ops[Len(ops)].op = "write"
    /\ decode_utf8(ops[Len(ops)].data).ok
    /\ WrittenDoc(Len(ops)).ok
    /\ IsCommandOf(last.line, WrittenDoc(Len(ops)).val)

\* C4 witness: `seek 5000` was typed and the bytes being written decode to
\* {command: "seek_to", value_ms: 5000}.
C4_Witness ==
  /\ pc = "write"
  /\ last.line = S("seek 5000")
  /\ IsCommand(WrittenDoc(Len(ops)).val, "seek_to", "value_ms", 5000)

\* bytes.fromhex(h): the bytes a hex text stands for.
fromhex(h) ==
  [i \in 1..(Len(h) \div 2) |-> HexValue(h[2 * i - 1]) * 16 + HexValue(h[2 * i])]

\* Whether a call of a handler ended in the raw fallback carrying `data`.
IsRawFallback(call) ==
  /\ call.exc = "none"
  /\ Len(call.out) = 1
  /\ call.out[1].line = "Raw data:"
  /\ fromhex(call.out[1].hex) = call.data

\* The calls of the handler of characteristic c so far.
CallsOf(c) == { handled[c][i] : i \in 1..Len(handled[c]) }

\* C3: a malformed notification (bytes that are no UTF-8 text, or UTF-8 text
\* that is no JSON), on the state or the debug characteristic, never raises
\* and never ends in an error: its handler prints the raw fallback with
\* exactly the bytes received.
C3_MalformedIsRawFallback ==
  \A c \in NotifyChars : \A call \in CallsOf(c) :
    call.data \in MalformedPayloads => IsRawFallback(call)

\* The lines a state update prints, given its four values.
StateUpdateLines(track, artist, is_playing, volume_percent) ==
  <<[line |-> "State Update:"],
    [line |-> "track - artist", track |-> track, artist |-> artist],
    [line |-> "Playing:", is_playing |-> is_playing],
    [line |-> "Volume:", volume_percent |-> volume_percent]>>

\* The state updates of the model, by the fields they carry.
StateUpdateWires == [keep \in SUBSET (1..4) |-> StateUpdateWire(keep)]

\* C5: a state update with any subset of track, artist, is_playing and
\* volume_percent decodes to the value of each field present and to the
\* default of each field absent: "Unknown", "Unknown", false, 0.
C5_StateUpdateDefaults ==
  \A call \in CallsOf(STATE_CHAR_UUID) : \A keep \in SUBSET (1..4) :
    call.data = StateUpdateWires[keep] =>
      /\ call.exc = "none"
      /\ call.out = StateUpdateLines(
           IF 1 \in keep THEN JStr(S("Song A")) ELSE JStr(S("Unknown")),
           IF 2 \in keep THEN JStr(S("Band")) ELSE JStr(S("Unknown")),
           IF 3 \in keep THEN JBool(TRUE) ELSE JBool(FALSE),
           IF 4 \in keep THEN JInt(70) ELSE JInt(0))

\* C5 witness: the state handler has handled
\* {"type":"stateUpdate","track":"Song A","is_playing":true} and printed
\* track "Song A", artist "Unknown", playing true, volume 0.
C5_Witness ==
  \E call \in CallsOf(STATE_CHAR_UUID) :
    /\ call.data = SongA
    /\ call.out = StateUpdateLines(JStr(S("Song A")), JStr(S("Unknown")),
                                   JBool(TRUE), JInt(0))

\* C6: a debug message whose level is none of ERROR, WARNING, INFO, DEBUG,
\* VERBOSE is shown as one of level INFO: like the same message with level
\* INFO, or with no level.
C6_UnknownLevelIsInfo ==
  \A call \in CallsOf(DEBUG_CHAR_UUID) : \A l \in UnknownLevels :
    call.data = DebugWire(l) =>
      /\ call.exc = "none"
      /\ call.out = HandlerTable[stdout_errors, DEBUG_CHAR_UUID, DebugWire(JStr(S("INFO")))].out
      /\ call.out[1].symbol = level_symbols.INFO

\* Whether a call of a handler ended in the handler's own error report.
IsErrorReport(call) ==
  /\ call.exc = "none"
  /\ call.out /= <<>>
  /\ call.out[Len(call.out)].line = "Error handling notification:"

\* C7: a failure while handling a notification is caught and reported by the
\* handler itself: no call of a handler raises, a call leaves the main task,
\* the link and the subscriptions as they are, and takes exactly the oldest
\* pending notification, whatever the calls before it did.
C7_HandlerFailureIsolated ==
  [][handled' /= handled =>
       /\ pc' = pc /\ link' = link /\ callbacks' = callbacks /\ ops' = ops
       /\ loopq' = Tail(loopq)
       /\ \E c \in NotifyChars :
            /\ Len(handled'[c]) = Len(handled[c]) + 1
            /\ handled'[c][Len(handled'[c])].data = Head(loopq).data
            /\ handled'[c][Len(handled'[c])].exc = "none"
            /\ Head(loopq).data = DeadBeef => IsErrorReport(handled'[c][Len(handled'[c])])]_vars

\* C7 witness: the state handler failed on DE AD BE EF, reported it, and then
\* decoded the state update that came next.
C7_Witness ==
  /\ Len(handled[STATE_CHAR_UUID]) = 2
  /\ handled[STATE_CHAR_UUID][1].data = DeadBeef
  /\ IsErrorReport(handled[STATE_CHAR_UUID][1])
  /\ handled[STATE_CHAR_UUID][2].data = SongA
  /\ handled[STATE_CHAR_UUID][2].out[1].line = "State Update:"
  /\ callbacks[DEBUG_CHAR_UUID] /= "none"

RECURSIVE DataOf(_)
\* The data of a sequence of calls or of pending notifications.
DataOf(q) == IF q = <<>> THEN <<>> ELSE <<Head(q).data>> \o DataOf(Tail(q))

RECURSIVE PendingFor(_, _)
\* The pending notifications that go to the handler h, in order.
PendingFor(h, q) ==
  IF q = <<>> THEN <<>>
  ELSE (IF Head(q).handler = h THEN <<Head(q)>> ELSE <<>>) \o PendingFor(h, Tail(q))

\* C8: for each of the two characteristics, what its handler has handled,
\* followed by what is pending for it, is exactly what the transport
\* delivered on that characteristic, in the same order.
C8_PerRoleOrder ==
  \A c \in NotifyChars :
    delivered[c] = DataOf(handled[c]) \o DataOf(PendingFor(c, loopq))

\* C8 witness: the state handler has handled two different notifications, in
\* the order of their delivery, and a command was written meanwhile.
C8_Witness ==
  /\ Len(handled[STATE_CHAR_UUID]) = 2
  /\ handled[STATE_CHAR_UUID][1].data = SongA
  /\ handled[STATE_CHAR_UUID][2].data = DeadBeef
  /\ delivered[STATE_CHAR_UUID] = <<SongA, DeadBeef>>
  /\ \E i \in 1..Len(ops) : ops[i].op = "write"

\* The session state of a control point of run.
SessionState(p) ==
  IF p = "idle" THEN "Idle"
  ELSE IF p \in {"find_device", "connect"} THEN "Discovering"
  ELSE IF p = "read_info" THEN "Connected"
  ELSE IF p \in {"sub_state", "sub_debug"} THEN "InfoRead"
  ELSE IF p = "sleep1" THEN "Subscribed"
  ELSE IF p \in {"input", "write", "info_cmd", "sleep01"} THEN "Active"
  ELSE "Disconnected"

StateOrder ==
  <<"Idle", "Discovering", "Connected", "InfoRead", "Subscribed", "Active", "Disconnected">>

Rank(p) == CHOOSE i \in 1..Len(StateOrder) : StateOrder[i] = SessionState(p)

\* C9 as stated: the subscriptions are started only with the device info
\* loaded, and the command loop only with both subscriptions made.
C9_GatedOnSuccess ==
  /\ pc = "sub_state" =>
       (last.step = "read_device_info" /\ last.out[1].line = "Device Capabilities:")
  /\ SessionState(pc) = "Active" => \A c \in NotifyChars : callbacks[c] /= "none"

\* C9 amended: the session moves only forward through Idle, Discovering,
\* Connected, InfoRead, Subscribed, Active, or to Disconnected; it starts
\* subscribing only after the info read was made, and enters the command loop
\* only after the subscriptions were attempted (the debug one only if the
\* state one succeeded), whether or not they succeeded.
C9_ForwardOnly ==
  /\ [](/\ SessionState(pc) \in {"InfoRead", "Subscribed", "Active"} =>
             (Len(ops) >= 2 /\ ops[1].op = "connect"
              /\ ops[2] = Op("read", INFO_CHAR_UUID, <<>>))
        /\ SessionState(pc) \in {"Subscribed", "Active"} =>
             /\ Len(ops) >= 3
             /\ ops[3] = Op("start_notify", STATE_CHAR_UUID, <<>>)
             /\ callbacks[STATE_CHAR_UUID] /= "none" =>
                  (Len(ops) >= 4 /\ ops[4] = Op("start_notify", DEBUG_CHAR_UUID, <<>>)))
  /\ [][\/ Rank(pc') = Rank(pc)
        \/ Rank(pc') = Rank(pc) + 1
        \/ (Rank(pc) >= 2 /\ SessionState(pc') = "Disconnected")]_vars

\* C9 witness: the command loop runs although the debug subscription failed.
C9_Witness ==
  /\ pc = "input"
  /\ callbacks[STATE_CHAR_UUID] /= "none"
  /\ callbacks[DEBUG_CHAR_UUID] = "none"
  /\ last.step = "sleep"

\* C10: when the info read fails, or the info value is no UTF-8 JSON text,
\* read_device_info reports the failure and prints nothing else: no
\* capabilities and no raw fallback.
C10_InfoFailureSurfaced ==
  (last.step = "read_device_info" /\ (~last.read.ok \/ last.read.data \in BadInfoPayloads))
    => /\ Len(last.out) = 1
       /\ last.out[1].line = "Failed to read device info:"

\* C10 witness: the info characteristic held DE AD BE EF at start-up and the
\* failure was reported.
C10_Witness ==
  /\ pc = "sub_state"
  /\ last.step = "read_device_info"
  /\ last.read = [ok |-> TRUE, data |-> DeadBeef]
  /\ last.out = InfoFailed("UnicodeDecodeError")

\* The indices of the transport operations named op issued so far.
OpsNamed(op) == { i \in 1..Len(ops) : ops[i].op = op }

\* C11: Disconnected is terminal.  A session whose discovery failed (no
\* device, an exception, a cancellation) has issued no transport operation;
\* one whose connect failed (client.connect() or the listing of the services
\* raised, or the connect was cancelled) has issued the connect and nothing
\* else; a disconnect is the last operation of its session; there is at most
\* one connect; and once the session has ended no transport operation is
\* issued, no handler is registered, and the main task takes no further step.
C11_DisconnectedTerminal ==
  /\ [](/\ (\/ last.step = "find_device" /\ last.result /= "found"
            \/ last.step = "CancelledError" /\ last.at = "find_device")
             => (pc = "done" /\ ops = <<>>)
        /\ (\/ last.step = "connect" /\ last.result /= "ok"
            \/ last.step = "CancelledError" /\ last.at = "connect")
             => (pc = "done" /\ ops = <<Op("connect", "", <<>>)>>)
        /\ \A i \in OpsNamed("disconnect") : i = Len(ops)
        /\ Cardinality(OpsNamed("connect")) <= 1)
  /\ [][pc = "done" => UNCHANGED <<pc, callbacks, ops, last, ncmds>>]_vars

\* C11 witness: client.connect() raised and the session ended with the
\* connect as its only transport operation.
C11_Witness ==
  /\ pc = "done"
  /\ last = [step |-> "connect", result |-> "failed"]
  /\ ops = <<Op("connect", "", <<>>)>>

\* C12: once the link is lost, no command write is attempted on it.
C12_NoWriteOnLostLink ==
  [][(~link /\ ops' /= ops) => ops'[Len(ops')].op /= "write"]_vars

\* C14: the four endpoints are pairwise distinct, every write goes to the
\* command characteristic, every read to the info characteristic, and every
\* start_notify to the state or the debug characteristic.
C14_EndpointRoles ==
  /\ Cardinality({COMMAND_CHAR_UUID, STATE_CHAR_UUID, DEBUG_CHAR_UUID, INFO_CHAR_UUID}) = 4
  /\ \A i \in 1..Len(ops) :
       /\ ops[i].op = "write" => ops[i].char = COMMAND_CHAR_UUID
       /\ ops[i].op = "read" => ops[i].char = INFO_CHAR_UUID
       /\ ops[i].op = "start_notify" => ops[i].char \in {STATE_CHAR_UUID, DEBUG_CHAR_UUID}
       /\ ops[i].char = COMMAND_CHAR_UUID => ops[i].op = "write"
       /\ ops[i].char = INFO_CHAR_UUID => ops[i].op = "read"
       /\ ops[i].char \in NotifyChars => ops[i].op = "start_notify"
  /\ DOMAIN callbacks = {STATE_CHAR_UUID, DEBUG_CHAR_UUID}
  /\ \A c \in NotifyChars : callbacks[c] \in {"none", c}

\* C14 witness: a session that has read the info characteristic, subscribed
\* to both notifying characteristics and written a command.
C14_Witness ==
  /\ OpsNamed("read") /= {}
  /\ \A c \in NotifyChars : \E i \in OpsNamed("start_notify") : ops[i].char = c
  /\ OpsNamed("write") /= {}

\* The lines of the session that form no valid command: an unrecognized word,
\* seek with an argument that is no integer, vol without argument.
InvalidLines == { S("stop"), S("seek abc"), S("vol") }

\* C15: operator input that forms no valid command (an unrecognized word,
\* seek/vol with a missing or non-integer argument) is rejected before any
\* transport operation: the step that takes the line issues no write (the
\* operation log is unchanged), leaves the link and the subscriptions as they
\* were, and leaves the session in the command loop, at the prompt or in the
\* short sleep before it.
C15_InvalidInputRejected ==
  [][(ncmds' = ncmds + 1 /\ last'.line \in InvalidLines)
       => /\ ops' = ops
          /\ callbacks' = callbacks
          /\ link' = link
          /\ last'.act \in {"unknown", "error"}
          /\ pc' \in {"input", "sleep01"}]_vars

\* C15 witness: the first line was rejected (nothing was written or read for
\* it), and the second line, `play`, is being written.
C15_Witness ==
  /\ ncmds = 2
  /\ pc = "write"
  /\ last.line = S("play")
  /\ Cardinality(OpsNamed("write")) = 1
  /\ Cardinality(OpsNamed("read")) = 1

\* The well-formed documents of the model whose type is not "stateUpdate":
\* objects with another type, with a type that is no string, with no type,
\* and documents that are no objects.
GenericDocs ==
  { JObj(<<Item("type", JStr(S("trackChange"))), Item("track", JStr(S("Song B")))>>),
    JObj(<<Item("type", JInt(1))>>),
    JObj(<<>>),
    JArr(<<JInt(1)>>),
    JInt(5),
    JStr(S("stateUpdate")),
    JFloat(S("1.5")),
    JNull }

\* The bytes of each of them on the wire.
GenericWires == [doc \in GenericDocs |-> Wire(doc)]

\* C16: every well-formed payload received on the state characteristic whose
\* type is not "stateUpdate" (an object with another type or with none, an
\* array, a number, a string) is shown as a generic event carrying the whole
\* parsed document: the handler prints the header and the document, and
\* nothing else; in particular no error report.
C16_GenericPassThrough ==
  \A call \in CallsOf(STATE_CHAR_UUID) : \A doc \in GenericDocs :
    call.data = GenericWires[doc] =>
      /\ call.exc = "none"
      /\ call.out = <<[line |-> "State Update:"], [line |-> "document", doc |-> doc]>>

\* C17: command writes are never pipelined. A write is issued only by the step
\* that takes an operator line at the prompt, so while a write is outstanding
\* (pc = "write") neither another write is issued nor another line taken; that
\* step issues exactly the write of the line it took, after all operations
\* issued before; the step that ends a write, completed or failed, issues
\* nothing, and the one that ends it cancelled nothing but the disconnect of
\* the finally clause; and there are never more writes than lines taken.
C17_WritesNotPipelined ==
  /\ [](Cardinality(OpsNamed("write")) <= ncmds)
  /\ [][/\ ncmds' /= ncmds => (pc = "input" /\ ncmds' = ncmds + 1)
        /\ pc = "write" =>
             /\ ncmds' = ncmds
             /\ \/ ops' = ops /\ pc' \in {"write", "sleep01", "done"}
                \/ /\ ops' = Append(ops, Op("disconnect", "", <<>>))
                   /\ pc' = "disconnect"
                   /\ last'.step = "CancelledError"
             /\ last'.step = "send_command" => (ops' = ops /\ pc' = "sleep01")
        /\ (ops' /= ops /\ ops'[Len(ops')].op = "write")
             => /\ pc = "input" /\ pc' = "write"
                /\ ncmds' = ncmds + 1
                /\ ops' = Append(ops, Op("write", COMMAND_CHAR_UUID, WriteTable[last'.line]))
        /\ Len(ops') >= Len(ops) /\ SubSeq(ops', 1, Len(ops)) = ops]_vars

\* C17 witness: the operator typed `play` and then `pause`; the first write
\* has ended, the second is outstanding, and the two writes are in the
\* operation log in that order, once each.
C17_Witness ==
  /\ ncmds = 2
  /\ pc = "write"
  /\ Len(ops) = 6
  /\ ops[5] = Op("write", COMMAND_CHAR_UUID, WriteTable[S("play")])
  /\ ops[6] = Op("write", COMMAND_CHAR_UUID, WriteTable[S("pause")])

\* C18: no subscribed notification is lost to scheduling: the n-th
\* notification the transport delivers on a characteristic is eventually
\* handled by that characteristic's handler, unless the session ends, and
\* whether or not the operator types anything further.  Behaviours that use
\* up the operator's MaxCmds lines are left aside, so that a violation is a
\* prompt at which the operator could still type, and does not.
C18_NotificationEventuallyHandled ==
  \A c \in NotifyChars : \A n \in 1..MaxNotify :
    (Len(delivered[c]) >= n) ~> (Len(handled[c]) >= n \/ pc = "done" \/ ncmds >= MaxCmds)

\* The step that begins the close of the session: the operator's `quit`, a
\* KeyboardInterrupt in input(), or the cancellation of the main task in one
\* of the awaits of the try block of run.
Closing ==
  /\ pc \notin {"disconnect", "done"}
  /\ last' /= last \/ ncmds' /= ncmds
  /\ \/ last' = [step |-> "input", line |-> S("quit"), act |-> "quit"]
     \/ last' = [step |-> "KeyboardInterrupt"]
     \/ last'.step = "CancelledError" /\ last'.at \notin {"find_device", "connect"}

\* C19: closing the session always tears the link down.  Once connect has
\* succeeded (the info read was issued), every close (quit, interrupt,
\* cancellation) issues disconnect once if the link is still up and nothing
\* if it is lost; there is never more than one disconnect and nothing is
\* issued after it; the session ends only through a close; an ended session
\* has no link; and no command write is issued once the operator has
\* interrupted the session.
C19_CloseTearsDown ==
  /\ [](/\ Cardinality(OpsNamed("disconnect")) <= 1
        /\ \A i \in OpsNamed("disconnect") : i = Len(ops)
        /\ (pc = "done" /\ OpsNamed("read") /= {}) => ~link)
  /\ [][/\ Closing =>
             /\ pc' = IF link THEN "disconnect" ELSE "done"
             /\ ops' = IF link THEN Append(ops, Op("disconnect", "", <<>>)) ELSE ops
        /\ (pc' \in {"disconnect", "done"} /\ pc \notin {"disconnect", "done"}
            /\ OpsNamed("read") /= {}) => Closing
        /\ (ops' /= ops /\ ops'[Len(ops')].op = "disconnect") => Closing
        /\ (must_cancel /\ ops' /= ops) => ops'[Len(ops')].op /= "write"]_vars

\* The start_notify operations issued for characteristic c.
SubscriptionsOf(c) == { i \in OpsNamed("start_notify") : ops[i].char = c }

\* C20: the subscriptions are made in a fixed order and a failure of one
\* does not end the session: each characteristic is subscribed at most once,
\* the state one by the step that ends the info read at start-up, the debug
\* one right after it, by the step in which the state one succeeded, and
\* only then; and the step in which a subscription fails (as the one in
\* which the last one succeeds) takes the session on to the sleep before the
\* command loop.
C20_SubscriptionOrder ==
  /\ [](/\ \A c \in NotifyChars : Cardinality(SubscriptionsOf(c)) <= 1
        /\ \A i \in SubscriptionsOf(DEBUG_CHAR_UUID) :
             /\ i > 1
             /\ ops[i - 1] = Op("start_notify", STATE_CHAR_UUID, <<>>)
             /\ callbacks[STATE_CHAR_UUID] /= "none"
        /\ callbacks[DEBUG_CHAR_UUID] /= "none" => callbacks[STATE_CHAR_UUID] /= "none"
        /\ SessionState(pc) = "Active" => SubscriptionsOf(STATE_CHAR_UUID) /= {})
  /\ [][/\ (Len(ops') > Len(ops) /\ ops'[Len(ops')].op = "start_notify") =>
             IF ops'[Len(ops')].char = STATE_CHAR_UUID
             THEN pc = "read_info" /\ pc' = "sub_state" /\ last'.step = "read_device_info"
             ELSE /\ pc = "sub_state" /\ pc' = "sub_debug"
                  /\ last' = [step |-> "start_notify", char |-> STATE_CHAR_UUID, ok |-> TRUE]
        /\ (pc \in {"sub_state", "sub_debug"} /\ pc' /= pc /\ last'.step = "start_notify") =>
             /\ last'.char = (IF pc = "sub_state" THEN STATE_CHAR_UUID ELSE DEBUG_CHAR_UUID)
             /\ pc' = IF last'.ok /\ last'.char = STATE_CHAR_UUID THEN "sub_debug" ELSE "sleep1"
             /\ (last'.ok /\ last'.char = STATE_CHAR_UUID) =>
                  ops' = Append(ops, Op("start_notify", DEBUG_CHAR_UUID, <<>>))
             /\ ~(last'.ok /\ last'.char = STATE_CHAR_UUID) => ops' = ops]_vars

\* C20 witness: the state subscription failed, the debug one was never
\* attempted, and the command loop is writing the operator's command.
C20_Witness ==
  /\ pc = "write"
  /\ callbacks = [c \in NotifyChars |-> "none"]
  /\ SubscriptionsOf(STATE_CHAR_UUID) /= {}
  /\ SubscriptionsOf(DEBUG_CHAR_UUID) = {}
  /\ ops[Len(ops)].op = "write"

====
